---- MODULE Spec2Model ----
(***************************************************************************)
(* Model of ddcsumserver/blockchain_processor.py: the catch-up worker      *)
(* (catch_up, import_block, the header file) and the mempool mirror        *)
(* (memorypool_update and its readers).                                    *)
(*                                                                         *)
(* Hashes are modelled by identity: a block is an integer whose base-Base  *)
(* digits are the fork choices on the path from the genesis block 0, so    *)
(* that a block's id determines its parent and its height.  Byte strings   *)
(* keep their length and the origin of every byte, so that a torn or stale *)
(* header record is visible.                                               *)
(***************************************************************************)
EXTENDS Integers, Sequences, FiniteSets, TLC

\* ---------------------------------------------------------------- constants
HEADER_SIZE == 112
BLOCKS_PER_CHUNK == 96
\* the literal of pop_header: self.headers_data[:-40]
POP_BYTES == 40
\* the literal of write_header: len(self.headers_data) > 40 * 100
FLUSH_LIMIT == 40 * 100
\* catch_up: test reorgs only once storage.height > 100
TEST_REORG_HEIGHT == 100
\* self.test_reorgs: the configuration default (leveldb.test_reorgs unset)
test_reorgs == FALSE

\* ------------------------------------------------------------------- bounds
\* highest block the daemon ever has
MaxHeight == 2
\* competing blocks on top of one parent
NFork == 2
\* transactions in a block (the first is the coinbase)
BlockTxs == 2
\* addresses
NAddr == 2

Base == NFork + 1
Addrs == 1..NAddr
\* the value None of the code
None == -1
\* a hash that is the hash of no block (the hash of bytes that are no header)
BadHash == -2
\* a byte the file system fills a hole with
ZeroByte == -3
NoRoot == <<>>

VARIABLES
    \* the daemon: its best chain, named by its tip
    daemon_tip,
    \* Storage
    storage_height, storage_last_hash, utxo_db, claim_db, undo_db,
    undo_claim_db, saved_height,
    \* the header file and its write buffer
    headers_file, headers_data, headers_offset,
    \* caches and subscriptions
    chunk_cache, history_cache, short_term_cache, watched_addresses,
    address_queue,
    \* the catch-up worker
    sync, prev_root_hash, up_to_date, header, worker,
    \* the daemon's memory pool and the mirror memorypool_update keeps of it
    daemon_mempool, mempool_hashes, mempool_addresses, mempool_values,
    mempool_hist,
    \* memorypool_update: its position and its locals
    mp_pc, new_tx, touched_addresses, new_mempool_hist,
    \* the last answer a session got from get_unconfirmed_history or
    \* get_unconfirmed_value
    observed,
    \* the worker's last completed step and the history of the run
    last_step, applied, roots, undo_left,
    \* the mirror as it was when the memorypool_update in progress started
    before,
    \* the daemon's blocks: the transactions from the memory pool each holds
    mined,
    \* a request servicer inside get_history: its position and its locals
    gh,
    \* the pairs (transaction, address) that were in mempool_hist when the
    \* daemon confirmed the transaction
    confirmed_mirrored,
    \* get_status: two histories of one address and the statuses computed
    st_hist, st_status,
    \* the subscription registries (watched_addresses is with the caches)
    watch_blocks, watch_headers,
    \* main_iteration: the values last sent, its position, and the
    \* notifications pushed by the step just taken
    sent_height, sent_header, mi_pc, pushed,
    \* the (session, method, address) of a do_subscribe call of this
    \* iteration that found the session subscribed already, <<>> if none
    subscribed_twice,
    \* add_request: the requests received (with the daemon's answer and
    \* whether the cache held their data), the responses pushed, the requests
    \* put back on self.queue, and the lookups the last request made
    asked, responses, request_queue, lookups,
    \* the thread of do_catch_up: whether it runs, its position, whether it is
    \* in the first catch_up or in main_iteration, catch_up's local revert,
    \* the call of get_block it is in, the wait_on_ddcscrdd it is in
    thread, w_pc, phase, revert_flag, gb_site, waiting,
    \* the flags of shared, whether Storage is closed, the exception that
    \* ended the thread, and where the thread was when stop() was called
    stopped, paused, storage_closed, killed_by, stopped_at,
    \* cache_lock: the thread that holds it; the request servicers: what each
    \* is doing
    cache_lock, servicer,
    \* merkle_cache, and for each of history_cache and merkle_cache the
    \* number of its entries whose keys are not among the model's addresses
    \* and transactions
    merkle_cache, history_others, merkle_others,
    \* get_merkle: the block the daemon answers with (its 'tx' list), the
    \* transaction asked for, and the value returned
    mk_tx_list, mk_tx_hash, mk_out,
    \* the 'tx' lists of the daemon's blocks at the heights asked for, and the
    \* last get_merkle request
    mk_blocks, mk_call,
    \* blockchain.claimtrie.getvalueforuri: the last call, its inputs and
    \* what it did
    rs_call,
    \* init_headers(db_height): where the call is, its db_height, height and
    \* prev_hash
    ih_pc, ih_db_height, ih_height, ih_prev_hash,
    \* the calls of storage.close() made, whether a Storage operation was
    \* invoked after one, and whether close() of the processor was called
    storage_closes, closed_use, close_called,
    \* watch_lock and mempool_lock: the thread that holds each; for each
    \* thread the call it is in and the with blocks it has yet to go through
    watch_lock, mempool_lock, in_call

daemonVars == <<daemon_tip>>
storageVars == <<storage_height, storage_last_hash, utxo_db, claim_db, undo_db,
                 undo_claim_db, saved_height>>
headerVars == <<headers_file, headers_data, headers_offset>>
cacheVars == <<chunk_cache, history_cache, short_term_cache,
               watched_addresses, address_queue>>
workerVars == <<sync, prev_root_hash, up_to_date, header, worker>>
historyVars == <<last_step, applied, roots, undo_left>>
mirrorVars == <<mempool_hashes, mempool_addresses, mempool_values, mempool_hist>>
mempoolVars == <<daemon_mempool, mirrorVars, mp_pc, new_tx, touched_addresses,
                 new_mempool_hist, observed, before>>
catchUpVars == <<daemonVars, storageVars, headerVars, cacheVars, workerVars,
                 historyVars>>
confirmVars == <<mined, gh, confirmed_mirrored>>
statusVars == <<st_hist, st_status>>
\* the state of the request side, which the worker's steps leave alone
sessionVars == <<watch_blocks, watch_headers, sent_height, sent_header, mi_pc,
                 pushed, subscribed_twice>>
requestVars == <<asked, responses, request_queue, lookups>>
threadVars == <<thread, w_pc, phase, revert_flag, gb_site, waiting, stopped,
                paused, storage_closed, killed_by, stopped_at>>
lockVars == <<cache_lock, servicer>>
sizeVars == <<merkle_cache, history_others, merkle_others>>
merkleVars == <<mk_tx_list, mk_tx_hash, mk_out, mk_blocks, mk_call>>
\* the state of the components that have a specification of their own
resolveVars == <<rs_call>>
initVars == <<ih_pc, ih_db_height, ih_height, ih_prev_hash>>
otherVars == <<sizeVars, merkleVars, resolveVars, initVars>>
closeVars == <<storage_closes, closed_use, close_called>>
heldVars == <<watch_lock, mempool_lock, in_call>>
laterVars == <<closeVars, heldVars>>
controlVars == <<threadVars, lockVars, otherVars, laterVars>>
\* all but the groups of otherVars
firstVars == <<daemonVars, storageVars, headerVars, cacheVars, workerVars,
               historyVars, mempoolVars, confirmVars, statusVars, sessionVars,
               requestVars, threadVars, lockVars, laterVars>>
notMerkle == <<firstVars, sizeVars, resolveVars, initVars>>
\* all but history_cache and sizeVars
notSize == <<daemonVars, storageVars, headerVars, chunk_cache, short_term_cache,
             watched_addresses, address_queue, workerVars, historyVars,
             mempoolVars, confirmVars, statusVars, sessionVars, requestVars,
             threadVars, lockVars, merkleVars, resolveVars, initVars,
             laterVars>>
serviceVars == <<statusVars, sessionVars, requestVars, controlVars>>

\* ------------------------------------------------------------ the daemon
Child(b, v) == b * Base + v
Parent(b) == IF b = 0 THEN None ELSE b \div Base

RECURSIVE Height(_)
Height(b) == IF b <= 0 THEN 0 ELSE 1 + Height(b \div Base)

RECURSIVE Ancestor(_, _)
\* getblockhash(k) on the chain whose tip is b, for k <= Height(b)
Ancestor(b, k) == IF Height(b) <= k THEN b ELSE Ancestor(b \div Base, k)

RECURSIVE IsBlock(_)
\* getblock(b) answers: b is a block the daemon has or has had
IsBlock(b) ==
    \/ b = 0
    \/ b > 0 /\ b % Base # 0 /\ Height(b) <= MaxHeight /\ IsBlock(b \div Base)

\* the txids of block b, in block order
BlockTx(b) == [i \in 1..BlockTxs |-> b * (BlockTxs + 1) + i]
BlockOf(txid) == txid \div (BlockTxs + 1)
\* a raw transaction parse_Transaction fails on: the last transaction of
\* every block whose id is even
Parses(txid) ==
    ~(/\ BlockOf(txid) > 0
      /\ BlockOf(txid) % 2 = 0
      /\ txid % (BlockTxs + 1) = BlockTxs)

\* ------------------------------------------------------------------ helpers
Min(a, b) == IF a < b THEN a ELSE b
Front(s) == SubSeq(s, 1, Len(s) - 1)
Last(s) == s[Len(s)]
Reverse(s) == [i \in 1..Len(s) |-> s[Len(s) + 1 - i]]
\* the orders in which a loop can visit the set S
Perms(S) ==
    {f \in [1..Cardinality(S) -> S] : \A i, j \in DOMAIN f : i # j => f[i] # f[j]}
Without(f, k) == [x \in (DOMAIN f) \ {k} |-> f[x]]
With(f, k, v) == [x \in (DOMAIN f) \cup {k} |-> IF x = k THEN v ELSE f[x]]
EmptyMap == <<>>
\* d.get(k, default)
DGet(d, k, default) == IF k \in DOMAIN d THEN d[k] ELSE default
Range(f) == {f[x] : x \in DOMAIN f}

\* ------------------------------------------- unconfirmed transactions
\* transactions the daemon can hold unconfirmed
NTx == 2
\* largest amount by which the mirror moves an address for one transaction
MaxDelta == 4
\* their txids, above the txid of every transaction of a block
FirstMempoolTx == (Base ^ (MaxHeight + 1)) * (BlockTxs + 1)
mempool_txid(m) == FirstMempoolTx + m
TxIndex(txid) == txid - FirstMempoolTx
MempoolTxs == {mempool_txid(m) : m \in 1..NTx}

RECURSIVE MainChain(_)
\* the first block mined at height h
MainChain(h) == IF h = 0 THEN 0 ELSE Child(MainChain(h - 1), 1)
Coinbase(b) == BlockTx(b)[1]

\* tx.get('outputs'), as pairs (address, value): one output of value 1
tx_outputs(txid) ==
    << <<(TxIndex(txid) % NAddr) + 1, 1>> >>
\* tx.get('inputs'), as pairs (prevout_hash, prevout_n): transaction m spends
\* the first output of transaction m - 1 and the coinbase of the block at
\* height m (the highest block, when the chain is shorter)
tx_inputs(txid) ==
    LET m == TxIndex(txid)
        confirmed == <<Coinbase(MainChain(Min(m, MaxHeight))), 0>>
    IN  IF m = 1 THEN <<confirmed>>
        ELSE << <<mempool_txid(m - 1), 0>>, confirmed >>

\* the address of the first output of a transaction
out_address(txid) ==
    IF txid >= FirstMempoolTx THEN tx_outputs(txid)[1][1] ELSE (txid % NAddr) + 1
\* the addresses a confirmed transaction touches: the one of its output and,
\* for a transaction that was in the memory pool, those of the outputs it spends
TxAddrs(txid) ==
    IF txid >= FirstMempoolTx
    THEN {out_address(txid)}
             \cup {out_address(i[1]) : i \in Range(tx_inputs(txid))}
    ELSE {(txid % NAddr) + 1}

\* ------------------------------------------------------------ byte strings
\* A byte string is the sequence of its runs <<b, lo, hi>>: the bytes lo..hi-1
\* of the serialized header of block b (bytes of different headers, or at
\* different positions of one header, are different bytes).  A run of the zero
\* bytes that fill a hole is <<ZeroByte, 0, n>>.  Runs are never empty and two
\* runs that continue each other are one, so equal strings are equal values.
RECURSIVE BLen(_)
\* len(s)
BLen(s) == IF s = <<>> THEN 0 ELSE (s[1][3] - s[1][2]) + BLen(Tail(s))

\* s + t
Cat(s, t) ==
    IF s = <<>> THEN t
    ELSE IF t = <<>> THEN s
    ELSE LET x == Last(s)
             y == Head(t)
         IN  IF x[1] = ZeroByte /\ y[1] = ZeroByte
             THEN Front(s) \o <<<<ZeroByte, 0, x[3] + y[3]>>>> \o Tail(t)
             ELSE IF x[1] = y[1] /\ x[3] = y[2]
             THEN Front(s) \o <<<<x[1], x[2], y[3]>>>> \o Tail(t)
             ELSE s \o t

RECURSIVE Take(_, _)
\* s[:n] for n >= 0
Take(s, n) ==
    IF n <= 0 \/ s = <<>> THEN <<>>
    ELSE LET x == Head(s)
             l == x[3] - x[2]
         IN  IF l <= n THEN <<x>> \o Take(Tail(s), n - l)
             ELSE <<<<x[1], x[2], x[2] + n>>>>

RECURSIVE Drop(_, _)
\* s[n:] for n >= 0
Drop(s, n) ==
    IF n <= 0 \/ s = <<>> THEN s
    ELSE LET x == Head(s)
             l == x[3] - x[2]
         IN  IF l <= n THEN Drop(Tail(s), n - l)
             ELSE IF x[1] = ZeroByte
             THEN <<<<ZeroByte, 0, l - n>>>> \o Tail(s)
             ELSE <<<<x[1], x[2] + n, x[3]>>>> \o Tail(s)

Zeros(n) == IF n <= 0 THEN <<>> ELSE <<<<ZeroByte, 0, n>>>>

\* ------------------------------------------------------- the header codec
\* header_to_string(block2header(getblock(b))).decode('hex'): 112 bytes
HeaderBytes(b) == <<<<b, 0, HEADER_SIZE>>>>
NoHeader == <<>>
\* hash_header(header_from_string(s)): the block whose header s is, if any
hash_header(s) ==
    IF Len(s) = 1 /\ s[1][1] >= 0 /\ s = HeaderBytes(s[1][1])
    THEN s[1][1]
    ELSE BadHash

\* ------------------------------------------------------- the header file
\* f.seek(at); f.write(data) on a file opened 'rb+': overwrites and extends,
\* never truncates; a hole is filled with zero bytes
WriteAt(file, at, data) ==
    LET head == IF at <= BLen(file) THEN Take(file, at)
               ELSE Cat(file, Zeros(at - BLen(file)))
        rest == Drop(file, at + BLen(data))
    IN  Cat(Cat(head, data), rest)

\* read_header(block_height) for block_height >= 0: the record, or NoHeader
\* when fewer than HEADER_SIZE bytes are there
read_header(file, block_height) ==
    LET h == Take(Drop(file, block_height * HEADER_SIZE), HEADER_SIZE)
    IN  IF BLen(h) = HEADER_SIZE THEN h ELSE NoHeader

\* read_chunk(index): the bytes actually there
read_chunk(file, index) ==
    Take(Drop(file, index * BLOCKS_PER_CHUNK * HEADER_SIZE),
         BLOCKS_PER_CHUNK * HEADER_SIZE)

\* flush_headers seeking to the record number as if it were a byte offset
flush_headers_seek_record(file, data, offset) ==
    IF data = <<>> THEN file ELSE WriteAt(file, offset, data)

flush_headers(file, data, offset) ==
    IF data = <<>> THEN file ELSE WriteAt(file, offset * HEADER_SIZE, data)

\* pop_header dropping the whole buffer instead of its tail
pop_header_all(data) == <<>>

pop_header(data) ==
    IF data # <<>> THEN Take(data, BLen(data) - POP_BYTES) ELSE data

\* write_header ignoring sync: it flushes only a full buffer
write_header_buffered(b, block_height, sync_) ==
    LET offset == IF headers_data = <<>> THEN block_height ELSE headers_offset
        data == Cat(headers_data, HeaderBytes(b))
        flush == BLen(data) > FLUSH_LIMIT
    IN  [file |-> IF flush THEN flush_headers(headers_file, data, offset)
                  ELSE headers_file,
         data |-> IF flush THEN <<>> ELSE data,
         offset |-> offset,
         chunk |-> chunk_cache]

\* write_header(header, sync) for the header of block b at height
\* block_height: the file, the buffer, its offset and the chunk cache after
write_header(b, block_height, sync_) ==
    LET offset == IF headers_data = <<>> THEN block_height ELSE headers_offset
        data == Cat(headers_data, HeaderBytes(b))
        flush == sync_ \/ BLen(data) > FLUSH_LIMIT
        chunk_index == block_height \div BLOCKS_PER_CHUNK
    IN  [file |-> IF flush THEN flush_headers(headers_file, data, offset)
                  ELSE headers_file,
         data |-> IF flush THEN <<>> ELSE data,
         offset |-> offset,
         chunk |-> IF chunk_index \in DOMAIN chunk_cache
                      /\ chunk_cache[chunk_index] # <<>>
                   THEN Without(chunk_cache, chunk_index)
                   ELSE chunk_cache]

\* get_chunk(i), the whole of it under cache_lock: the chunk returned and
\* the chunk cache after
get_chunk(i) ==
    LET cached == IF i \in DOMAIN chunk_cache THEN chunk_cache[i] ELSE <<>>
        chunk == IF cached = <<>> THEN read_chunk(headers_file, i) ELSE cached
    IN  [chunk |-> chunk,
         cache |-> IF cached = <<>> /\ chunk # <<>>
                   THEN With(chunk_cache, i, chunk) ELSE chunk_cache]

\* a request servicer answers blockchain.block.get_chunk [i]
get_chunk_request ==
    \E i \in 0..(MaxHeight \div BLOCKS_PER_CHUNK) :
        /\ chunk_cache' = get_chunk(i).cache
        /\ UNCHANGED <<daemonVars, storageVars, headerVars, history_cache,
                       short_term_cache, watched_addresses, address_queue,
                       workerVars, historyVars, mempoolVars>>

\* ------------------------------------------------------------------ Storage
\* The Storage backend keeps the UTXO set and the claim trie; each is modelled
\* by the sequence of the transactions imported into it and not reverted.
\* Reverting a transaction with its own undo record, as the last one imported,
\* restores the state before its import; any other revert leaves a state that
\* no import produces.
get_root_hash == <<utxo_db, claim_db>>
import_transaction(db, txid) == Append(db, txid)
undo_of(txid, block_height) == <<txid, block_height>>
revert_transaction(db, txid, block_height, undo) ==
    IF db # <<>> /\ Last(db) = txid /\ undo = undo_of(txid, block_height)
    THEN Front(db)
    ELSE Append(db, 0 - txid)
import_claim_transaction(db, txid) == Append(db, txid)
revert_claim_transaction(db, undo) ==
    IF db # <<>> /\ Last(db) = undo[1]
    THEN Front(db)
    ELSE Append(db, 0 - undo[1])

\* deserialize_block: the txids that parse, in block order; the transactions
\* that come from the memory pool have been parsed there already
deserialize_block(b) == SelectSeq(BlockTx(b), Parses) \o DGet(mined, b, <<>>)

\* import_block visiting the transactions in block order even on revert
tx_order_forward(tx_hashes, revert) == tx_hashes

\* the order in which import_block visits the transactions
tx_order(tx_hashes, revert) == IF revert THEN Reverse(tx_hashes) ELSE tx_hashes

RECURSIVE ImportLoop(_, _, _)
\* the loop of import_block, not revert
ImportLoop(st, txs, block_height) ==
    IF txs = <<>> THEN st
    ELSE LET txid == Head(txs)
         IN  ImportLoop(
                 [st EXCEPT
                     !.utxo = import_transaction(st.utxo, txid),
                     !.claim = import_claim_transaction(st.claim, txid),
                     !.undo = With(st.undo, txid, undo_of(txid, block_height)),
                     !.cundo = With(st.cundo, txid, undo_of(txid, block_height)),
                     !.touched = st.touched \cup TxAddrs(txid)],
                 Tail(txs), block_height)

RECURSIVE RevertLoop(_, _, _)
\* the loop of import_block, revert: undo_info.pop(txid) raises KeyError on a
\* txid it does not hold
RevertLoop(st, txs, block_height) ==
    IF txs = <<>> \/ st.status # "ok" THEN st
    ELSE LET txid == Head(txs)
         IN  IF txid \notin DOMAIN st.undo
             THEN [st EXCEPT !.status = "KeyError"]
             ELSE IF txid \notin DOMAIN st.cundo
             THEN [st EXCEPT
                      !.status = "KeyError",
                      !.utxo = revert_transaction(st.utxo, txid, block_height,
                                                  st.undo[txid]),
                      !.undo = Without(st.undo, txid)]
             ELSE RevertLoop(
                 [st EXCEPT
                     !.utxo = revert_transaction(st.utxo, txid, block_height,
                                                 st.undo[txid]),
                     !.claim = revert_claim_transaction(st.claim, st.cundo[txid]),
                     !.undo = Without(st.undo, txid),
                     !.cundo = Without(st.cundo, txid),
                     !.touched = st.touched \cup TxAddrs(txid)],
                 Tail(txs), block_height)

\* import_block(block, block_hash, block_height, revert), up to the loop over
\* the touched addresses: the Storage state after it, the addresses touched,
\* and how it ended ("ok", or the exception raised)
import_block(block_hash, block_height, revert) ==
    LET tx_hashes == tx_order(deserialize_block(block_hash), revert)
        st0 == [status |-> "ok", utxo |-> utxo_db, claim |-> claim_db,
                undo |-> EmptyMap, cundo |-> EmptyMap, touched |-> {}]
    IN  IF ~revert
        THEN LET st == ImportLoop(st0, tx_hashes, block_height)
             IN  [status |-> "ok", utxo |-> st.utxo, claim |-> st.claim,
                  undo_db |-> With(undo_db, block_height, st.undo),
                  undo_claim_db |-> With(undo_claim_db, block_height, st.cundo),
                  saved |-> <<block_hash, block_height>>,
                  touched |-> st.touched, left |-> <<st.undo, st.cundo>>]
        ELSE IF block_height \notin DOMAIN undo_db
                \/ block_height \notin DOMAIN undo_claim_db
        THEN [status |-> "NoUndoInfo", utxo |-> utxo_db, claim |-> claim_db,
              undo_db |-> undo_db, undo_claim_db |-> undo_claim_db,
              saved |-> saved_height, touched |-> {},
              left |-> <<EmptyMap, EmptyMap>>]
        ELSE LET st == RevertLoop(
                     [st0 EXCEPT !.undo = undo_db[block_height],
                                 !.cundo = undo_claim_db[block_height]],
                     tx_hashes, block_height)
                 status == IF st.status # "ok" THEN st.status
                           ELSE IF st.cundo # EmptyMap \/ st.undo # EmptyMap
                           THEN "AssertionError"
                           ELSE "ok"
             IN  [status |-> status, utxo |-> st.utxo, claim |-> st.claim,
                  undo_db |-> undo_db, undo_claim_db |-> undo_claim_db,
                  saved |-> IF status = "ok"
                            THEN <<block_hash, block_height>>
                            ELSE saved_height,
                  touched |-> IF status = "ok" THEN st.touched ELSE {},
                  left |-> <<st.undo, st.cundo>>]

RECURSIVE QueueLoop(_, _)
\* the puts of invalidate_cache for the addresses of order, which all have
\* sessions watching them
QueueLoop(queue, order) ==
    IF order = <<>> THEN queue
    ELSE QueueLoop(Append(queue, <<Head(order), watched_addresses[Head(order)]>>),
                   Tail(order))

\* the addresses of a set that invalidate_cache queues a notification for
Watched(addresses) ==
    {a \in addresses : a \in DOMAIN watched_addresses
                       /\ watched_addresses[a] # <<>>}

\* for addr in addresses: self.invalidate_cache(addr), the loop visiting the
\* watched addresses in the order given: the history cache and the address
\* queue after it
invalidate_cache(addresses, order) ==
    [cache |-> [a \in (DOMAIN history_cache) \ addresses |-> history_cache[a]],
     queue |-> QueueLoop(address_queue, order)]

\* ------------------------------------------------------------ the daemon
\* The daemon connects a block on top of its tip.  The first block mined on
\* a parent is its fork 1; a competing block is the next fork (daemon_reorg),
\* so the daemon never returns to a branch it has left.
daemon_new_block ==
    /\ Height(daemon_tip) < MaxHeight
    /\ daemon_tip' = Child(daemon_tip, 1)
    /\ UNCHANGED <<storageVars, headerVars, cacheVars, workerVars, historyVars,
                   mempoolVars>>

\* a reorganization: the daemon disconnects its blocks above height k and
\* connects a competing block at height k + 1
daemon_reorg ==
    \E k \in 0..(MaxHeight - 1) :
        /\ k < Height(daemon_tip)
        /\ LET old == Ancestor(daemon_tip, k + 1)
           IN  /\ old % Base < NFork
               /\ daemon_tip' = old + 1
        /\ UNCHANGED <<storageVars, headerVars, cacheVars, workerVars,
                       historyVars, mempoolVars>>

\* ------------------------------------------------------------ catch_up
\* random.randint(1, 100) == 1, drawn only in the test configuration
RandomRevert ==
    IF test_reorgs /\ storage_height > TEST_REORG_HEIGHT THEN BOOLEAN ELSE {FALSE}

\* getblockhash(storage.height + 1) raises: the daemon's chain is no higher
\* than Storage, or the call fails (fail)
no_next_block(fail) == fail \/ storage_height + 1 > Height(daemon_tip)

\* the forward test without the comparison of previousblockhash
forward_condition_unlinked(previousblockhash, revert) == ~revert

\* the test of catch_up for the forward step, once next_block is fetched
forward_condition(previousblockhash, revert) ==
    previousblockhash = storage_last_hash /\ ~revert

\* the header catch_up leaves in self.header when it returns
tip_header ==
    [id |-> storage_last_hash, block_height |-> Height(storage_last_hash),
     utxo_root |-> get_root_hash]
\* a header read from the file: header_from_string gives no height, no root
file_header(h) == [id |-> hash_header(h), block_height |-> None,
                   utxo_root |-> NoRoot]

\* The copies catch_up keeps of the daemon's getinfo answer (relayfee,
\* ddcscrdd_height) and its throughput statistics are read by no operation
\* modelled here and are left out.
\* the loop of catch_up ends: Storage is at the daemon's tip.  The next call
\* is the one of main_iteration, with sync=True and a fresh prev_root_hash
catch_up_break ==
    /\ worker = "running"
    /\ mp_pc = "idle"
    /\ storage_last_hash = daemon_tip
    /\ up_to_date' = TRUE
    /\ header' = tip_header
    /\ sync' = TRUE
    /\ prev_root_hash' = NoRoot
    /\ last_step' = "break"
    /\ UNCHANGED <<daemonVars, storageVars, headerVars, cacheVars, worker,
                   applied, roots, undo_left, mempoolVars>>

\* one iteration of the loop of catch_up, forward step
catch_up_forward ==
    /\ worker = "running"
    /\ mp_pc = "idle"
    /\ storage_last_hash # daemon_tip
    /\ FALSE \in RandomRevert
    /\ ~no_next_block(FALSE)
    /\ \E next_block_hash \in {Ancestor(daemon_tip, storage_height + 1)} :
       \E r \in {import_block(next_block_hash, storage_height + 1, FALSE)} :
       \E w \in {write_header(next_block_hash, Height(next_block_hash), sync)} :
           /\ forward_condition(Parent(next_block_hash), FALSE)
           /\ prev_root_hash' = get_root_hash
           /\ short_term_cache' = {}
           /\ utxo_db' = r.utxo
           /\ claim_db' = r.claim
           /\ undo_db' = r.undo_db
           /\ undo_claim_db' = r.undo_claim_db
           /\ saved_height' = r.saved
           /\ \E order \in Perms(Watched(r.touched)) :
              \E c \in {invalidate_cache(r.touched, order)} :
                  /\ history_cache' = c.cache
                  /\ address_queue' = c.queue
           /\ storage_height' = storage_height + 1
           /\ headers_file' = w.file
           /\ headers_data' = w.data
           /\ headers_offset' = w.offset
           /\ chunk_cache' = w.chunk
           /\ storage_last_hash' = next_block_hash
           /\ applied' = Append(applied, next_block_hash)
           /\ roots' = Append(roots, <<r.utxo, r.claim>>)
    /\ up_to_date' = FALSE
    /\ last_step' = "forward"
    /\ UNCHANGED <<daemonVars, watched_addresses, sync, header, worker,
                   undo_left, mempoolVars>>

\* one iteration of the loop of catch_up, revert step.  fail: the call
\* getblockhash(storage.height + 1) raises although the daemon has the block
\* (its answer is lost, or its chain changed since the call for the tip)
catch_up_revert ==
    /\ worker = "running"
    /\ mp_pc = "idle"
    /\ storage_last_hash # daemon_tip
    /\ TRUE \in {LET revert == rnd \/ no_next_block(fail)
                 IN  \/ revert
                     \/ ~forward_condition(
                            Parent(Ancestor(daemon_tip, storage_height + 1)),
                            revert) : fail \in BOOLEAN, rnd \in RandomRevert}
    /\ \E r \in {import_block(storage_last_hash, storage_height, TRUE)} :
       \E file \in {flush_headers(headers_file, pop_header(headers_data),
                                  headers_offset)} :
       \E height \in {storage_height - 1} :
       \E h \in {IF height < 0 THEN NoHeader ELSE read_header(file, height)} :
       \* the exception that ends the iteration, if any
       \E outcome \in {
               IF ~IsBlock(storage_last_hash) THEN "DaemonError"
               ELSE IF r.status # "ok" THEN r.status
               ELSE IF h = NoHeader THEN "NoHeader"
               ELSE IF prev_root_hash # NoRoot
                       /\ prev_root_hash # <<r.utxo, r.claim>>
               THEN "RootMismatch"
               ELSE "ok"} :
           /\ worker' = IF outcome = "ok" THEN "running" ELSE outcome
           /\ last_step' = IF outcome = "ok" THEN "revert" ELSE "crash"
           /\ IF outcome = "DaemonError"
              THEN UNCHANGED <<short_term_cache, utxo_db, claim_db,
                               undo_left>>
              ELSE /\ short_term_cache' = {}
                   /\ utxo_db' = r.utxo
                   /\ claim_db' = r.claim
                   /\ undo_left' = r.left
           /\ IF outcome \in {"ok", "NoHeader", "RootMismatch"}
              THEN /\ saved_height' = r.saved
                   /\ \E order \in Perms(Watched(r.touched)) :
                      \E c \in {invalidate_cache(r.touched, order)} :
                          /\ history_cache' = c.cache
                          /\ address_queue' = c.queue
                   /\ headers_data' = <<>>
                   /\ headers_file' = file
                   /\ storage_height' = height
                   /\ header' = IF h = NoHeader
                                THEN [id |-> None, block_height |-> None,
                                      utxo_root |-> NoRoot]
                                ELSE file_header(h)
                   /\ applied' = Front(applied)
                   /\ roots' = Front(roots)
              ELSE UNCHANGED <<saved_height, history_cache, address_queue,
                               headers_data, headers_file, storage_height,
                               header, applied, roots>>
           /\ storage_last_hash' = IF outcome \in {"ok", "RootMismatch"}
                                   THEN hash_header(h)
                                   ELSE storage_last_hash
           /\ prev_root_hash' = IF outcome = "ok" THEN NoRoot
                                ELSE prev_root_hash
    /\ up_to_date' = FALSE
    /\ UNCHANGED <<daemonVars, undo_db, undo_claim_db, headers_offset,
                   chunk_cache, watched_addresses, sync, mempoolVars>>

\* ------------------------------------------------ the daemon's memory pool
\* the daemon accepts a transaction whose confirmed input is in its chain
\* and that no block of its chain holds
daemon_mempool_accept ==
    \E txid \in MempoolTxs \ daemon_mempool :
        /\ \A b \in DOMAIN mined : txid \notin Range(mined[b])
        /\ \E h \in {Min(TxIndex(txid), MaxHeight)} :
               /\ Height(daemon_tip) >= h
               /\ Ancestor(daemon_tip, h) = MainChain(h)
        /\ daemon_mempool' = daemon_mempool \cup {txid}
        /\ UNCHANGED <<catchUpVars, mirrorVars, mp_pc, new_tx,
                       touched_addresses, new_mempool_hist, observed, before>>

\* a transaction leaves the daemon's memory pool: mined, replaced or expired
daemon_mempool_leave ==
    \E txid \in daemon_mempool :
        /\ daemon_mempool' = daemon_mempool \ {txid}
        /\ UNCHANGED <<catchUpVars, mirrorVars, mp_pc, new_tx,
                       touched_addresses, new_mempool_hist, observed, before>>

\* The daemon connects a block that holds a transaction of its memory pool
\* (one whose unconfirmed parent is not waiting there); the transaction
\* leaves the memory pool.
daemon_mine_block ==
    \E txid \in daemon_mempool :
        /\ Height(daemon_tip) < MaxHeight
        /\ TxIndex(txid) > 1 => mempool_txid(TxIndex(txid) - 1) \notin daemon_mempool
        /\ daemon_tip' = Child(daemon_tip, 1)
        /\ mined' = With(mined, Child(daemon_tip, 1), <<txid>>)
        /\ daemon_mempool' = daemon_mempool \ {txid}
        /\ confirmed_mirrored' = confirmed_mirrored \cup
               {<<txid, a>> : a \in {x \in DOMAIN mempool_hist :
                                        \E i \in DOMAIN mempool_hist[x] :
                                            mempool_hist[x][i][1] = txid}}
        /\ UNCHANGED <<storageVars, headerVars, cacheVars, workerVars,
                       historyVars, mirrorVars, mp_pc, new_tx,
                       touched_addresses, new_mempool_hist, observed, before,
                       gh>>

\* ------------------------------------------------------ Storage, read side
\* storage.get_address(txi) and storage.get_utxo_value(addr, txi) answer for
\* the outputs of the transactions imported and not reverted, and raise for
\* any other outpoint
utxo_known(prevout_hash) == \E i \in DOMAIN utxo_db : utxo_db[i] = prevout_hash
get_address(prevout_hash) == out_address(prevout_hash)
get_utxo_value(prevout_hash) == 2

\* ------------------------------------------------------ memorypool_update
Restrict(f, S) == [x \in (DOMAIN f) \cap S |-> f[x]]

RECURSIVE add_outputs(_, _)
\* the loop over tx.get('outputs'): mpa after it
add_outputs(mpa, outputs) ==
    IF outputs = <<>> THEN mpa
    ELSE LET addr == Head(outputs)[1]
             value == Head(outputs)[2]
         IN  add_outputs(With(mpa, addr, DGet(mpa, addr, 0) + value),
                         Tail(outputs))

RECURSIVE check_outputs(_, _)
\* "check all tx outputs": the loop over new_tx, visited in the order txs
check_outputs(st, txs) ==
    IF txs = <<>> THEN st
    ELSE LET tx_hash == Head(txs)
             mpa == DGet(st.addresses, tx_hash, EmptyMap)
         IN  check_outputs(
                 [st EXCEPT
                     !.addresses = With(@, tx_hash,
                                        add_outputs(mpa, tx_outputs(tx_hash))),
                     !.values = With(@, tx_hash, tx_outputs(tx_hash)),
                     !.touched = @ \cup {o[1] : o \in Range(tx_outputs(tx_hash))}],
                 Tail(txs))

RECURSIVE sub_inputs(_, _, _)
\* the loop over tx.get('inputs') of tx_hash: mpa is the dict held in
\* mempool_addresses, so each input shows there at once; a failing Storage
\* lookup ends the whole update
sub_inputs(st, tx_hash, inputs) ==
    IF inputs = <<>> \/ st.status # "ok" THEN st
    ELSE LET prevout_hash == Head(inputs)[1]
             prevout_n == Head(inputs)[2]
             mpv == DGet(st.values, prevout_hash, <<>>)
             found == mpv # <<>> \/ utxo_known(prevout_hash)
             addr == IF mpv # <<>> THEN mpv[prevout_n + 1][1]
                     ELSE get_address(prevout_hash)
             value == IF mpv # <<>> THEN mpv[prevout_n + 1][2]
                      ELSE get_utxo_value(prevout_hash)
             mpa == st.addresses[tx_hash]
         IN  IF ~found THEN [st EXCEPT !.status = "postponed"]
             ELSE sub_inputs(
                      [st EXCEPT
                          !.addresses = With(@, tx_hash,
                              With(mpa, addr, DGet(mpa, addr, 0) - value)),
                          !.touched = @ \cup {addr}],
                      tx_hash, Tail(inputs))

RECURSIVE check_inputs(_, _)
\* "check all inputs": the loop over new_tx, in the same order
check_inputs(st, txs) ==
    IF txs = <<>> \/ st.status # "ok" THEN st
    ELSE check_inputs(sub_inputs(st, Head(txs), tx_inputs(Head(txs))),
                      Tail(txs))

\* "remove deprecated entries from mempool_addresses"
remove_deprecated(st, hashes) ==
    LET gone == (DOMAIN st.addresses) \ hashes
    IN  [st EXCEPT
            !.addresses = Restrict(@, hashes),
            !.values = [x \in (DOMAIN st.values) \ gone |-> st.values[x]],
            !.touched = @ \cup UNION {DOMAIN st.addresses[t] : t \in gone}]

\* "remove deprecated entries from mempool_hist": the new dict
filter_hist(hist, addresses) ==
    LET hh(addr) == SelectSeq(hist[addr], LAMBDA e : e[1] \in DOMAIN addresses)
    IN  [addr \in {a \in DOMAIN hist : hh(a) # <<>>} |-> hh(addr)]

RECURSIVE add_addresses(_, _, _)
\* the loop over addresses.iteritems() of tx_hash, for the addresses left
add_addresses(hist, tx_hash, left) ==
    IF left = {} THEN hist
    ELSE LET addr == CHOOSE a \in left : TRUE
             delta == mempool_addresses[tx_hash][addr]
             h == DGet(hist, addr, <<>>)
         IN  add_addresses(
                 With(hist, addr,
                      IF <<tx_hash, delta>> \in Range(h) THEN h
                      ELSE Append(h, <<tx_hash, delta>>)),
                 tx_hash, left \ {addr})

RECURSIVE add_new(_, _)
\* "add new transactions to mempool_hist"
add_new(hist, txs) ==
    IF txs = <<>> THEN hist
    ELSE add_new(add_addresses(hist, Head(txs),
                               DOMAIN mempool_addresses[Head(txs)]),
                 Tail(txs))

\* the rebuild done in the dict the readers read
published_early(hist, building) == building

\* self.mempool_hist while new_mempool_hist is being built: the rebuild
\* fills a dict of its own, the one of the readers is not written
unpublished(hist, building) == hist

\* no memorypool_update is in progress
NoMirror == [hashes |-> {}, values |-> EmptyMap, addresses |-> EmptyMap,
             hist |-> EmptyMap]
\* no session has asked since the memorypool_update in progress started
NoAnswer == [kind |-> "none", addr |-> 0, hist |-> <<>>, value |-> 0]

\* memorypool_update, called when catch_up has returned, up to the rebuild of
\* mempool_hist: getrawmempool, the new transactions (failed: those
\* get_mempool_transaction returns None for; order: the order in which the
\* dict new_tx is visited), the replacement of mempool_hashes, the loops over
\* outputs and inputs, the removal of deprecated entries
mp_update_maps ==
    /\ worker = "running"
    /\ mp_pc = "idle"
    /\ last_step = "break"
    /\ \E failed \in SUBSET (daemon_mempool \ mempool_hashes) :
       \E order \in Perms((daemon_mempool \ mempool_hashes) \ failed) :
       \E out \in {check_outputs([addresses |-> mempool_addresses,
                                  values |-> mempool_values,
                                  touched |-> {}, status |-> "ok"], order)} :
       \E inp \in {check_inputs(out, order)} :
       \E st \in {IF inp.status = "ok"
                  THEN remove_deprecated(inp, daemon_mempool) ELSE inp} :
           /\ \A t \in DOMAIN st.addresses : \A a \in DOMAIN st.addresses[t] :
                  st.addresses[t][a] \in (0 - MaxDelta)..MaxDelta
           /\ mempool_hashes' = daemon_mempool
           /\ mempool_addresses' = st.addresses
           /\ mempool_values' = st.values
           /\ IF st.status = "ok"
              THEN /\ mp_pc' = "filter"
                   /\ new_tx' = order
                   /\ touched_addresses' = st.touched
                   /\ before' = [hashes |-> mempool_hashes,
                                 values |-> mempool_values,
                                 addresses |-> mempool_addresses,
                                 hist |-> mempool_hist]
                   /\ UNCHANGED last_step
              ELSE /\ last_step' = "mempool"
                   /\ UNCHANGED <<mp_pc, new_tx, touched_addresses, before>>
    /\ UNCHANGED <<daemonVars, storageVars, headerVars, cacheVars, workerVars,
                   applied, roots, undo_left, daemon_mempool, mempool_hist,
                   new_mempool_hist, observed>>

\* memorypool_update: new_mempool_hist gets the entries of mempool_hist that
\* are still in mempool_addresses
mp_filter ==
    /\ mp_pc = "filter"
    /\ new_mempool_hist' = filter_hist(mempool_hist, mempool_addresses)
    /\ mempool_hist' = unpublished(mempool_hist, new_mempool_hist')
    /\ mp_pc' = "add"
    /\ UNCHANGED <<catchUpVars, daemon_mempool, mempool_hashes,
                   mempool_addresses, mempool_values, new_tx,
                   touched_addresses, observed, before>>

\* memorypool_update: new_mempool_hist gets the new transactions
mp_add ==
    /\ mp_pc = "add"
    /\ new_mempool_hist' = add_new(new_mempool_hist, new_tx)
    /\ mempool_hist' = unpublished(mempool_hist, new_mempool_hist')
    /\ mp_pc' = "swap"
    /\ UNCHANGED <<catchUpVars, daemon_mempool, mempool_hashes,
                   mempool_addresses, mempool_values, new_tx,
                   touched_addresses, observed, before>>

\* memorypool_update: with self.mempool_lock: self.mempool_hist = new_mempool_hist
mp_swap ==
    /\ mp_pc = "swap"
    /\ mempool_hist' = new_mempool_hist
    /\ mp_pc' = "invalidate"
    /\ UNCHANGED <<catchUpVars, daemon_mempool, mempool_hashes,
                   mempool_addresses, mempool_values, new_tx,
                   touched_addresses, new_mempool_hist, observed, before>>

\* memorypool_update: the loop over touched_addresses, and the return
mp_invalidate ==
    /\ mp_pc = "invalidate"
    /\ \E order \in Perms(Watched(touched_addresses)) :
       \E c \in {invalidate_cache(touched_addresses, order)} :
           /\ history_cache' = c.cache
           /\ address_queue' = c.queue
    /\ mp_pc' = "idle"
    /\ new_tx' = <<>>
    /\ touched_addresses' = {}
    /\ new_mempool_hist' = EmptyMap
    /\ observed' = NoAnswer
    /\ before' = NoMirror
    /\ last_step' = "mempool"
    /\ UNCHANGED <<daemonVars, storageVars, headerVars, chunk_cache,
                   short_term_cache, watched_addresses, workerVars, applied,
                   roots, undo_left, daemon_mempool, mirrorVars>>

\* -------------------------------------------------- the request servicers
\* the entries of mempool_hist a reader finds for addr
hist_get(hist, addr) == DGet(hist, addr, <<>>)

RECURSIVE sum_deltas(_)
sum_deltas(h) == IF h = <<>> THEN 0 ELSE Head(h)[2] + sum_deltas(Tail(h))

\* get_unconfirmed_history(addr), run by a request servicer while
\* memorypool_update is running: the loop runs with mempool_lock held
get_unconfirmed_history ==
    \E addr \in Addrs :
        /\ mp_pc # "idle"
        /\ observed' = [kind |-> "history", addr |-> addr,
                        hist |-> [i \in DOMAIN hist_get(mempool_hist, addr) |->
                                     <<hist_get(mempool_hist, addr)[i][1], 0>>],
                        value |-> 0]
        /\ UNCHANGED <<catchUpVars, daemon_mempool, mirrorVars, mp_pc, new_tx,
                       touched_addresses, new_mempool_hist, before>>

\* get_unconfirmed_value(addr), likewise
get_unconfirmed_value ==
    \E addr \in Addrs :
        /\ mp_pc # "idle"
        /\ observed' = [kind |-> "value", addr |-> addr, hist |-> <<>>,
                        value |-> sum_deltas(hist_get(mempool_hist, addr))]
        /\ UNCHANGED <<catchUpVars, daemon_mempool, mirrorVars, mp_pc, new_tx,
                       touched_addresses, new_mempool_hist, before>>

\* ------------------------------------------------------------ get_history
\* self.max_cache_size
max_cache_size == 100000

\* the block that holds transaction txid
tx_block(txid) ==
    IF txid >= FirstMempoolTx
    THEN CHOOSE b \in DOMAIN mined : txid \in Range(mined[b])
    ELSE BlockOf(txid)

\* storage.get_history(addr): the entries (tx_hash, height) of the
\* transactions imported and not reverted that touch addr, by height
storage_get_history(addr) ==
    LET txs == SelectSeq(utxo_db, LAMBDA t : t > 0 /\ addr \in TxAddrs(t))
    IN  [i \in DOMAIN txs |-> <<txs[i], Height(tx_block(txs[i]))>>]

\* the height-0 entries get_history appends for the entries of mempool_hist
mempool_entries(addr) ==
    [i \in DOMAIN hist_get(mempool_hist, addr) |->
        <<hist_get(mempool_hist, addr)[i][1], 0>>]

RECURSIVE insert_by_height(_, _)
\* e placed behind the entries of s that are not higher than it
insert_by_height(s, e) ==
    IF s = <<>> THEN <<e>>
    ELSE IF Last(s)[2] <= e[2] THEN Append(s, e)
    ELSE Append(insert_by_height(Front(s), e), Last(s))

RECURSIVE sorted_by_height(_)
\* sorted(hist, key=lambda x: x['height']): the sort is stable
sorted_by_height(hist) ==
    IF hist = <<>> THEN <<>>
    ELSE insert_by_height(sorted_by_height(Front(hist)), Last(hist))

\* no get_history call is in progress
NoCall == [pc |-> "idle", addr |-> 0, hist |-> <<>>]

\* get_history(addr) by a request servicer, on a cache miss, up to the end of
\* the block under mempool_lock: hist holds Storage's entries and the
\* height-0 entries.  (On a hit the call returns the cached list and writes
\* nothing.)
get_history_read ==
    \E addr \in Addrs :
        /\ gh.pc = "idle"
        /\ addr \notin DOMAIN history_cache
        /\ gh' = [pc |-> "store", addr |-> addr,
                  hist |-> storage_get_history(addr) \o mempool_entries(addr)]
        /\ UNCHANGED <<catchUpVars, mempoolVars, mined, confirmed_mirrored>>

\* get_history: the second block under cache_lock, and the return
get_history_store ==
    /\ gh.pc = "store"
    /\ history_cache' =
           With(IF Cardinality(DOMAIN history_cache) > max_cache_size
                THEN EmptyMap ELSE history_cache,
                gh.addr, gh.hist)
    /\ gh' = NoCall
    /\ UNCHANGED <<daemonVars, storageVars, headerVars, chunk_cache,
                   short_term_cache, watched_addresses, address_queue,
                   workerVars, historyVars, mempoolVars, mined,
                   confirmed_mirrored>>

\* what get_history(addr) returns to a call made in this state
get_history(addr) ==
    IF addr \in DOMAIN history_cache
    THEN sorted_by_height(history_cache[addr])
    ELSE sorted_by_height(storage_get_history(addr) \o mempool_entries(addr))

\* ------------------------------------------------------------- get_status
\* hashlib.sha256(status).digest().encode('hex'): the digest stands for the
\* string it is taken of (no two strings met here collide)
sha256(status) == <<"sha256", status>>

\* get_status, given the list get_history returned: the string joins
\* tx_hash + ':%d:' % height over the list, in the order of the list
status_of(tx_points) ==
    IF tx_points = <<>> THEN None ELSE sha256(tx_points)

\* get_status(addr) for a call made in this state
get_status(addr) == status_of(get_history(addr))

\* Histories of one address as get_history builds them before it sorts:
\* Storage's entries by height (any of the transactions of the first block
\* mined at each height), then the height-0 entries in the order of
\* mempool_hist
StorageHistories ==
    LET all == [i \in 1..(MaxHeight * BlockTxs) |->
                   LET h == ((i - 1) \div BlockTxs) + 1
                       k == ((i - 1) % BlockTxs) + 1
                   IN  <<BlockTx(MainChain(h))[k], h>>]
    IN  {SelectSeq(all, LAMBDA e : e \in S) : S \in SUBSET Range(all)}
MempoolOrders(S) == {[i \in DOMAIN f |-> <<f[i], 0>>] : f \in Perms(S)}

\* get_status applied to both histories, each sorted as get_history returns it
status_apply ==
    /\ st_status = <<>>
    /\ st_status' = <<status_of(sorted_by_height(st_hist[1])),
                      status_of(sorted_by_height(st_hist[2]))>>
    /\ UNCHANGED <<catchUpVars, mempoolVars, confirmVars, st_hist, sessionVars,
                   requestVars,
                   controlVars>>

\* in main_iteration catch_up has returned and the
\* memorypool_update that followed it has returned
IterationDone == mp_pc = "idle" /\ last_step = "mempool"

\* ---------------------------------------------------------- subscriptions
\* the sessions connected, and the addresses they ask about
Sessions == {"s1", "s2"}
Methods == {"numblocks", "headers", "address"}
AskedAddrs == {1}

\* a list that gets session at every call
subscribe_again(l, session) == Append(l, session)

\* if session not in l: l.append(session)
subscribe_to(l, session) ==
    IF session \in Range(l) THEN l ELSE Append(l, session)

\* the sessions registered for a method (and address)
Registered(method, address) ==
    IF method = "numblocks" THEN watch_blocks
    ELSE IF method = "headers" THEN watch_headers
    ELSE DGet(watched_addresses, address, <<>>)

\* do_subscribe(method, params, session), under watch_lock.  The list of an
\* address is one object: an append shows in the entries of address_queue
\* that hold it (those whose list is not empty).
do_subscribe ==
    \E session \in Sessions, method \in Methods, address \in AskedAddrs :
        /\ subscribed_twice' =
               IF session \in Range(Registered(method, address))
               THEN <<session, method, address>>
               ELSE subscribed_twice
        /\ watch_blocks' = IF method = "numblocks"
                           THEN subscribe_to(watch_blocks, session)
                           ELSE watch_blocks
        /\ watch_headers' = IF method = "headers"
                            THEN subscribe_to(watch_headers, session)
                            ELSE watch_headers
        /\ watched_addresses' =
               IF method = "address"
               THEN With(watched_addresses, address,
                         subscribe_to(DGet(watched_addresses, address, <<>>),
                                      session))
               ELSE watched_addresses
        /\ address_queue' =
               IF method = "address"
               THEN [i \in DOMAIN address_queue |->
                        IF address_queue[i][1] = address
                           /\ address_queue[i][2] # <<>>
                        THEN <<address, subscribe_to(address_queue[i][2], session)>>
                        ELSE address_queue[i]]
               ELSE address_queue
        /\ UNCHANGED <<daemonVars, storageVars, headerVars, chunk_cache,
                       history_cache, short_term_cache, workerVars,
                       historyVars, mempoolVars, confirmVars, statusVars,
                       sent_height, sent_header, mi_pc, requestVars,
                   controlVars>>

\* l.remove(session): the first occurrence is taken out
remove_first(l, session) ==
    LET i == CHOOSE i \in 1..Len(l) :
                 l[i] = session /\ \A j \in 1..(i - 1) : l[j] # session
    IN SubSeq(l, 1, i - 1) \o SubSeq(l, i + 1, Len(l))

\* if session in l: l.remove(session)
unsubscribe_from(l, session) ==
    IF session \in Range(l) THEN remove_first(l, session) ELSE l

\* a do_unsubscribe that keeps the entry of an address nobody watches
keep_if_empty(d, addr) == d

\* if not l: self.watched_addresses.pop(addr)
pop_if_empty(d, addr) == IF d[addr] = <<>> THEN Without(d, addr) ELSE d

\* what do_unsubscribe(method, [address], session) makes of the registries,
\* and whether it calls shared.stop().  For an address, l =
\* self.watched_addresses.get(addr); if not l: return.
unsubscribed(method, address, session) ==
    LET l == DGet(watched_addresses, address, <<>>)
        left == unsubscribe_from(l, session)
        listed == method = "address" /\ l # <<>>
    IN [blocks |-> IF method = "numblocks"
                   THEN unsubscribe_from(watch_blocks, session)
                   ELSE watch_blocks,
        headers |-> IF method = "headers"
                    THEN unsubscribe_from(watch_headers, session)
                    ELSE watch_headers,
        addresses |-> IF listed
                      THEN pop_if_empty(With(watched_addresses, address, left),
                                        address)
                      ELSE watched_addresses,
        \* if session in l: print_log("error rc!!"); self.shared.stop()
        stop |-> listed /\ session \in Range(left)]

\* do_unsubscribe(method, params, session), under watch_lock.  The list of an
\* address is one object: a removal shows in the entries of address_queue
\* that hold it.
do_unsubscribe ==
    \E session \in Sessions, method \in Methods, address \in AskedAddrs :
        \E r \in {unsubscribed(method, address, session)} :
            /\ watch_blocks' = r.blocks
            /\ watch_headers' = r.headers
            /\ watched_addresses' = r.addresses
            /\ address_queue' =
                   IF method = "address"
                   THEN [i \in DOMAIN address_queue |->
                            IF address_queue[i][1] = address
                               /\ address_queue[i][2] # <<>>
                            THEN <<address,
                                   unsubscribe_from(address_queue[i][2], session)>>
                            ELSE address_queue[i]]
                   ELSE address_queue
            /\ stopped' = (stopped \/ r.stop)
            /\ stopped_at' = IF r.stop /\ ~stopped THEN "do_unsubscribe"
                             ELSE stopped_at
            /\ UNCHANGED <<daemonVars, storageVars, headerVars, chunk_cache,
                           history_cache, short_term_cache, workerVars,
                           historyVars, mempoolVars, confirmVars, statusVars,
                           sent_height, sent_header, mi_pc, pushed,
                           subscribed_twice, requestVars, thread, w_pc, phase,
                           revert_flag, gb_site, waiting, paused,
                           storage_closed, killed_by, lockVars, otherVars,
                           laterVars>>

\* --------------------------------------------------------- main_iteration
\* self.sent_header before the first notification: None
NoHeaderSent == [id |-> None, block_height |-> None, utxo_root |-> NoRoot]

\* a notification as push_response gets it
Notification(session, method, params) ==
    [session |-> session, method |-> method, params |-> params]

\* the height of a numblocks notification taken from sent_height as it was
height_pushed_before(sent, height) == sent

\* 'params': (self.storage.height,): read when the notification is pushed,
\* after self.sent_height = self.storage.height
height_pushed(sent, height) == height

\* main_iteration taking every iteration for a change
differs_always(sent, current) == TRUE

\* if self.sent_height != self.storage.height, if self.sent_header !=
\* self.header
differs(sent, current) == sent # current

\* main_iteration once catch_up and memorypool_update have returned: the
\* numblocks notifications
notify_blocks ==
    /\ IterationDone
    /\ mi_pc = "numblocks"
    /\ IF differs(sent_height, storage_height)
       THEN /\ sent_height' = storage_height
            /\ pushed' = [i \in DOMAIN watch_blocks |->
                             Notification(watch_blocks[i], "numblocks",
                                 <<height_pushed(sent_height, storage_height)>>)]
       ELSE /\ pushed' = <<>>
            /\ UNCHANGED sent_height
    /\ mi_pc' = "headers"
    /\ UNCHANGED <<catchUpVars, mempoolVars, confirmVars, statusVars,
                   watch_blocks, watch_headers, sent_header, subscribed_twice,
                   requestVars,
                   controlVars>>

\* main_iteration: the headers notifications
notify_headers ==
    /\ mi_pc = "headers"
    /\ IF differs(sent_header, header)
       THEN /\ sent_header' = header
            /\ pushed' = [i \in DOMAIN watch_headers |->
                             Notification(watch_headers[i], "headers", <<header>>)]
       ELSE /\ pushed' = <<>>
            /\ UNCHANGED sent_header
    /\ mi_pc' = "queue"
    /\ UNCHANGED <<catchUpVars, mempoolVars, confirmVars, statusVars,
                   watch_blocks, watch_headers, sent_height, subscribed_twice,
                   requestVars,
                   controlVars>>

\* main_iteration: one entry of address_queue: get_status(addr), which fills
\* history_cache on a miss, and the notifications to the entry's sessions
notify_address ==
    /\ mi_pc = "queue"
    /\ address_queue # <<>>
    /\ \E addr \in {Head(address_queue)[1]} :
       \E sessions \in {Head(address_queue)[2]} :
       \E status \in {get_status(addr)} :
           /\ history_cache' =
                  IF addr \in DOMAIN history_cache THEN history_cache
                  ELSE With(IF Cardinality(DOMAIN history_cache) > max_cache_size
                            THEN EmptyMap ELSE history_cache,
                            addr,
                            storage_get_history(addr) \o mempool_entries(addr))
           /\ pushed' = [i \in DOMAIN sessions |->
                            Notification(sessions[i], "address", <<addr, status>>)]
    /\ address_queue' = Tail(address_queue)
    /\ UNCHANGED <<daemonVars, storageVars, headerVars, chunk_cache,
                   short_term_cache, watched_addresses, workerVars,
                   historyVars, mempoolVars, confirmVars, statusVars,
                   watch_blocks, watch_headers, sent_height, sent_header,
                   mi_pc, subscribed_twice, requestVars,
                   controlVars>>

\* main_iteration: address_queue.get(False) raises Empty, the loop ends and
\* main_iteration returns
notify_done ==
    /\ mi_pc = "queue"
    /\ address_queue = <<>>
    /\ mi_pc' = "numblocks"
    /\ last_step' = "notified"
    /\ pushed' = <<>>
    /\ subscribed_twice' = <<>>
    /\ UNCHANGED <<daemonVars, storageVars, headerVars, cacheVars, workerVars,
                   applied, roots, undo_left, mempoolVars, confirmVars,
                   statusVars, watch_blocks, watch_headers, sent_height,
                   sent_header, requestVars,
                   controlVars>>

\* ------------------------------------------------------------- requests
\* requests received in a run
MaxRequests == 2
\* the most items a batch command takes
MAX_BATCH_URIS == 500

\* A value a handler returns or an exception carries.  Python values of all
\* shapes, in one record: the type, the number (an int, a float, the length
\* of a dict, the code of a daemon error, the argument of a format), the
\* text in pieces, the items of a list.
Value(type, number, text, items) ==
    [type |-> type, number |-> number, text |-> text, items |-> items]
IntValue(n) == Value("int", n, <<>>, <<>>)
FloatValue(n) == Value("float", n, <<>>, <<>>)
NoneValue == Value("None", 0, <<>>, <<>>)
StrValue(text) == Value("str", 0, text, <<>>)
ListValue(items) == Value("list", 0, <<>>, items)
\* a dict of n results
DictValue(n) == Value("dict", n, <<>>, <<>>)
\* j.error of a JSONRPCException: {'code': code, 'message': message}
ErrorValue(code, message) == Value("error", code, <<message>>, <<>>)

\* what a call does: it returns a value or raises, and leaves history_cache
\* and the number of lookups made
Returned(value, cache, n) ==
    [raised |-> FALSE, value |-> value, cache |-> cache, lookups |-> n]
Raised(value, cache, n) ==
    [raised |-> TRUE, value |-> value, cache |-> cache, lookups |-> n]

\* the daemon's answer to a call: a result, or an error with a code and a
\* message (-28, which ddcscrdd retries, is not a final answer)
Answer(code, value) == [code |-> code, value |-> value]
NullAnswer == Answer(0, NoneValue)

\* ddcscrdd(method, args) given the daemon's final answer: every error is
\* raised as BaseException(j.error)
ddcscrdd(answer) ==
    IF answer.code = 0
    THEN Returned(answer.value, history_cache, 0)
    ELSE Raised(answer.value, history_cache, 0)

\* cmd_address_get_history(address, cache_only): get_history
cmd_address_get_history(address, cache_only) ==
    IF address \in DOMAIN history_cache
    THEN Returned(ListValue(get_history(address)), history_cache, 0)
    ELSE IF cache_only
    THEN Returned(IntValue(-1), history_cache, 0)
    ELSE Returned(ListValue(get_history(address)),
                  With(IF Cardinality(DOMAIN history_cache) > max_cache_size
                       THEN EmptyMap ELSE history_cache,
                       address,
                       storage_get_history(address) \o mempool_entries(address)),
                  0)

\* cmd_transaction_get_height(tx_hash): the answer to getrawtransaction is
\* a dict with 'hex' and 'confirmations' (a "dict", its number the
\* confirmations), a dict with 'hex' only (a "str"), or null
cmd_transaction_get_height(ddcscrdd_height, answer) ==
    IF answer.code # 0 THEN ddcscrdd(answer)
    ELSE IF answer.value.type = "dict"
    THEN Returned(IntValue(ddcscrdd_height - answer.value.number),
                  history_cache, 0)
    ELSE IF answer.value.type = "str"
    THEN Returned(IntValue(-1), history_cache, 0)
    ELSE Returned(NoneValue, history_cache, 0)

\* cmd_estimate_fee(num): the daemon's answer, a float
cmd_estimate_fee(answer) == ddcscrdd(answer)

\* a rejection that is raised to the caller
rejected_as_error(answer, raw_transaction) == ddcscrdd(answer)

\* cmd_transaction_broadcast, except BaseException, e: the result made of
\* the daemon's error
rejected_as_result(answer, raw_transaction) ==
    IF answer.value.number = -26
    THEN Returned(StrValue(<<"The transaction was rejected by network rules.(",
                             answer.value.text[1], ")\n[", raw_transaction,
                             "]">>),
                  history_cache, 0)
    ELSE Returned(StrValue(<<answer.value.text[1]>>), history_cache, 0)

\* cmd_transaction_broadcast(raw_transaction)
cmd_transaction_broadcast(raw_transaction, answer) ==
    IF answer.code = 0 THEN ddcscrdd(answer)
    ELSE rejected_as_result(answer, raw_transaction)

\* a limit that refuses MAX_BATCH_URIS items as well
exceeds_from(n) == n >= MAX_BATCH_URIS

\* len(claim_ids) > MAX_BATCH_URIS
exceeds(n) == n > MAX_BATCH_URIS

\* cmd_batch_get_claims_by_id(*claim_ids) and
\* cmd_batch_claimtrie_get_value_for_uri(block_hash, *uris) for n items: the
\* test of the length, then one lookup for each item
cmd_batch(n) ==
    IF exceeds(n)
    THEN Raised(Value("str", MAX_BATCH_URIS, <<"Exceeds max batch uris of {}">>,
                      <<>>),
                history_cache, 0)
    ELSE Returned(DictValue(n), history_cache, n)

BatchMethods == {"blockchain.claimtrie.getclaimsbyids",
                 "blockchain.claimtrie.getvaluesforuris"}
RequestMethods ==
    {"blockchain.address.get_history", "blockchain.transaction.get_height",
     "blockchain.estimatefee", "blockchain.transaction.broadcast"}
        \cup BatchMethods

\* the requests of the sessions: the method and what its parameters are
\* (an address and cache_only, or a number of items)
Request(method, address, cache_only, items) ==
    [method |-> method, address |-> address, cache_only |-> cache_only,
     items |-> items]
Requests ==
    {Request("blockchain.address.get_history", a, c, 0) :
        a \in Addrs, c \in BOOLEAN}
    \cup {Request(m, 0, FALSE, 0) :
            m \in {"blockchain.transaction.get_height",
                   "blockchain.estimatefee",
                   "blockchain.transaction.broadcast"}}
    \cup {Request(m, 0, FALSE, n) :
            m \in BatchMethods,
            n \in {0, 1, MAX_BATCH_URIS - 1, MAX_BATCH_URIS,
                   MAX_BATCH_URIS + 1, 2 * MAX_BATCH_URIS}}

\* the final answers of the daemon to the call a request makes
Answers(method) ==
    IF method = "blockchain.transaction.get_height"
    THEN {Answer(0, DictValue(c)) : c \in 1..MaxHeight}
             \cup {Answer(0, StrValue(<<"hex">>)), NullAnswer,
                   Answer(-5, ErrorValue(-5, "No information available"))}
    ELSE IF method = "blockchain.estimatefee"
    THEN {Answer(0, FloatValue(n)) : n \in {-1, 1}}
    ELSE IF method = "blockchain.transaction.broadcast"
    THEN {Answer(0, StrValue(<<"txid">>)),
          Answer(-26, ErrorValue(-26, "64: dust")),
          Answer(-25, ErrorValue(-25, "Missing inputs"))}
    ELSE {NullAnswer}

\* process(request): the handler of the method called with the parameters
process(request, ddcscrdd_height, answer) ==
    IF request.method = "blockchain.address.get_history"
    THEN cmd_address_get_history(request.address, request.cache_only)
    ELSE IF request.method = "blockchain.transaction.get_height"
    THEN cmd_transaction_get_height(ddcscrdd_height, answer)
    ELSE IF request.method = "blockchain.estimatefee"
    THEN cmd_estimate_fee(answer)
    ELSE IF request.method = "blockchain.transaction.broadcast"
    THEN cmd_transaction_broadcast("raw", answer)
    ELSE cmd_batch(request.items)

\* result == -1
is_minus_one(value) == value.type \in {"int", "float"} /\ value.number = -1

\* the data a cache_only request needs is in the cache
Cached(request) ==
    /\ request.method = "blockchain.address.get_history"
    /\ request.address \in DOMAIN history_cache

\* add_request(session, request): the request gets the next id
add_request ==
    \E session \in Sessions, request \in Requests :
    \E ddcscrdd_height \in
          IF request.method = "blockchain.transaction.get_height"
          THEN 1..MaxHeight ELSE {1} :
    \E answer \in Answers(request.method) :
    \E out \in {process(request, ddcscrdd_height, answer)} :
    \E message_id \in {Len(asked) + 1} :
        /\ Len(asked) < MaxRequests
        /\ answer.value.type = "dict" => answer.value.number <= ddcscrdd_height
        /\ asked' = Append(asked, [id |-> message_id, request |-> request,
                                   cached |-> Cached(request),
                                   answer |-> answer])
        /\ history_cache' = out.cache
        /\ lookups' = out.lookups
        /\ IF out.raised
           THEN /\ responses' = Append(responses,
                                       [session |-> session, id |-> message_id,
                                        error |-> TRUE, value |-> out.value])
                /\ UNCHANGED request_queue
           ELSE IF is_minus_one(out.value)
           THEN /\ request_queue' = Append(request_queue, <<session, message_id>>)
                /\ UNCHANGED responses
           ELSE /\ responses' = Append(responses,
                                       [session |-> session, id |-> message_id,
                                        error |-> FALSE, value |-> out.value])
                /\ UNCHANGED request_queue
        /\ UNCHANGED <<daemonVars, storageVars, headerVars, chunk_cache,
                       short_term_cache, watched_addresses, address_queue,
                       workerVars, historyVars, mempoolVars, confirmVars,
                       statusVars, sessionVars, controlVars>>

\* ------------------------------------------- the thread of do_catch_up
\* The control flow of the worker thread: its daemon calls, each with the
\* answers the daemon can give, and its checks of shared.stopped().  What the
\* calls return and what the thread does to Storage between them is in the
\* actions of catch_up and memorypool_update above; here a comparison of two
\* hashes is a choice.

\* the codes of the daemon's answers: 0 for a result, -28 while it warms up,
\* the errors -1, -342, -343
DaemonCodes == {0, -28, -1, -342, -343}

\* the positions of the thread at a daemon call
CallSites == {"do_catch_up:getblock", "getinfo", "getblockhash",
              "next_block_hash", "get_block:getblock",
              "get_block:getrawtransaction", "catch_up:getblock",
              "getrawmempool"}

\* a wait_on_ddcscrdd that returns whatever shared.stopped() says
no_stop_check(flag) == FALSE

\* wait_on_ddcscrdd: if self.shared.stopped(): raise BaseException()
stop_check(flag) == flag

everythingElse == <<catchUpVars, mempoolVars, confirmVars, statusVars,
                    sessionVars, requestVars, lockVars, otherVars>>

\* an exception leaves do_catch_up: the thread ends
thread_raises(why) ==
    /\ thread' = "raised"
    /\ killed_by' = why
    /\ w_pc' = "done"
    /\ waiting' = "none"
    /\ UNCHANGED <<phase, revert_flag, gb_site, storage_closed>>

\* an exception is raised in the call at w_pc: next_block_hash is in a try
\* whose except sets revert (615), the getrawtransaction calls of get_block
\* are in a try whose except calls wait_on_ddcscrdd (585), no other call is
\* in a try
raise_at_site(why) ==
    IF w_pc = "next_block_hash"
    THEN /\ revert_flag' = TRUE
         /\ w_pc' = "get_block:getblock"
         /\ gb_site' = "next"
         /\ waiting' = "none"
         /\ UNCHANGED <<thread, phase, storage_closed, killed_by>>
    ELSE IF w_pc = "get_block:getrawtransaction"
    THEN /\ waiting' = "get_block"
         /\ UNCHANGED <<thread, w_pc, phase, revert_flag, gb_site,
                        storage_closed, killed_by>>
    ELSE thread_raises(why)

\* the call at w_pc returns
return_at_site ==
    /\ UNCHANGED <<thread, killed_by, waiting>>
    /\ CASE w_pc = "do_catch_up:getblock" ->
              /\ w_pc' = "catch_up"
              /\ UNCHANGED <<phase, revert_flag, gb_site, storage_closed>>
         [] w_pc = "getinfo" ->
              /\ w_pc' = "getblockhash"
              /\ UNCHANGED <<phase, revert_flag, gb_site, storage_closed>>
         [] w_pc = "getblockhash" ->
              \* storage.last_hash == ddcscrdd_block_hash: break, or go on
              /\ w_pc' \in {"catch_up:getblock", "next_block_hash"}
              /\ UNCHANGED <<phase, revert_flag, gb_site, storage_closed>>
         [] w_pc = "next_block_hash" ->
              /\ revert_flag' = FALSE
              /\ w_pc' = "get_block:getblock"
              /\ gb_site' = "next"
              /\ UNCHANGED <<phase, storage_closed>>
         [] w_pc = "get_block:getblock" ->
              /\ w_pc' = "get_block:getrawtransaction"
              /\ UNCHANGED <<phase, revert_flag, gb_site, storage_closed>>
         [] w_pc = "get_block:getrawtransaction" ->
              \* the block is imported, or (previousblockhash differs, or
              \* revert) the tip is fetched and reverted
              /\ \E linked \in BOOLEAN :
                     IF gb_site = "next" /\ ~(linked /\ ~revert_flag)
                     THEN w_pc' = "get_block:getblock" /\ gb_site' = "revert"
                     ELSE w_pc' = "catch_up" /\ gb_site' = "next"
              /\ UNCHANGED <<phase, revert_flag, storage_closed>>
         [] w_pc = "catch_up:getblock" ->
              \* if self.shared.stopped(): self.storage.close(); then back in
              \* do_catch_up (if not stopped: memorypool_update) or in
              \* main_iteration (memorypool_update)
              /\ storage_closed' = stopped
              /\ w_pc' = IF phase = "first" /\ stopped THEN "main_loop"
                         ELSE "getrawmempool"
              /\ UNCHANGED <<phase, revert_flag, gb_site>>
         [] w_pc = "getrawmempool" ->
              /\ w_pc' = IF phase = "first" THEN "main_loop" ELSE "notify"
              /\ UNCHANGED <<phase, revert_flag, gb_site, storage_closed>>

\* ddcscrdd(method, args) at one of the call sites: one attempt
daemon_call ==
    /\ thread = "running"
    /\ w_pc \in CallSites
    /\ waiting = "none"
    /\ \E code \in DaemonCodes :
           IF code = 0 THEN return_at_site /\ UNCHANGED paused
           ELSE IF code = -28
           THEN \* wait_on_ddcscrdd: self.shared.pause(), time.sleep(0.1)
                /\ paused' = TRUE
                /\ waiting' = "ddcscrdd"
                /\ UNCHANGED <<thread, w_pc, phase, revert_flag, gb_site,
                               storage_closed, killed_by>>
           ELSE raise_at_site("daemon error") /\ UNCHANGED paused
    /\ UNCHANGED <<stopped, stopped_at, everythingElse>>

\* wait_on_ddcscrdd after its sleep, called by ddcscrdd for -28 or by the
\* except of get_block: raise if stopped, else the call is made again
wait_on_ddcscrdd ==
    /\ thread = "running"
    /\ waiting # "none"
    /\ paused' = TRUE
    /\ IF stop_check(stopped)
       THEN IF waiting = "get_block" THEN thread_raises("shutdown")
            ELSE raise_at_site("shutdown")
       ELSE /\ waiting' = "none"
            /\ UNCHANGED <<thread, w_pc, phase, revert_flag, gb_site,
                           storage_closed, killed_by>>
    /\ UNCHANGED <<stopped, stopped_at, everythingElse>>

\* while not self.shared.stopped(): of catch_up
catch_up_loop ==
    /\ thread = "running"
    /\ w_pc = "catch_up"
    /\ w_pc' = IF stopped THEN "catch_up:getblock" ELSE "getinfo"
    /\ UNCHANGED <<thread, phase, revert_flag, gb_site, waiting, stopped,
                   paused, storage_closed, killed_by, stopped_at,
                   everythingElse>>

\* while not self.shared.stopped(): of do_catch_up, and main_iteration up to
\* its call of catch_up
main_loop ==
    /\ thread = "running"
    /\ w_pc = "main_loop"
    /\ IF stopped
       THEN thread' = "returned" /\ w_pc' = "done" /\ UNCHANGED phase
       ELSE thread' = thread /\ w_pc' = "catch_up" /\ phase' = "main"
    /\ UNCHANGED <<revert_flag, gb_site, waiting, stopped, paused,
                   storage_closed, killed_by, stopped_at, everythingElse>>

\* a do_catch_up that does not look at shared.paused()
main_iteration_end_paused ==
    /\ thread = "running"
    /\ w_pc = "notify"
    /\ w_pc' = "main_loop"
    /\ UNCHANGED <<thread, phase, revert_flag, gb_site, waiting, stopped,
                   paused, storage_closed, killed_by, stopped_at,
                   everythingElse>>

\* the rest of main_iteration, which calls no daemon, then in do_catch_up:
\* if self.shared.paused(): self.shared.unpause(); time.sleep(0.1)
main_iteration_end ==
    /\ thread = "running"
    /\ w_pc = "notify"
    /\ w_pc' = "main_loop"
    /\ paused' = FALSE
    /\ UNCHANGED <<thread, phase, revert_flag, gb_site, waiting, stopped,
                   storage_closed, killed_by, stopped_at, everythingElse>>

\* another thread calls shared.stop()
shared_stop ==
    /\ ~stopped
    /\ stopped' = TRUE
    /\ stopped_at' = IF waiting # "none" THEN "wait_on_ddcscrdd" ELSE w_pc
    /\ UNCHANGED <<thread, w_pc, phase, revert_flag, gb_site, waiting, paused,
                   storage_closed, killed_by, everythingElse>>

\* ------------------------------------------------------------ close
\* catch_up, lines 655-657: if self.shared.stopped(): self.storage.close().
\* main_iteration then calls memorypool_update, whose loop over the inputs of
\* a new transaction calls storage.get_address and storage.get_utxo_value
\* (706-707) when the input spends an output that is not in the mempool.
daemon_call_storage ==
    /\ daemon_call
    /\ storage_closes' =
           IF w_pc = "catch_up:getblock" /\ stopped
              /\ w_pc' \in {"main_loop", "getrawmempool"}
           THEN storage_closes + 1 ELSE storage_closes
    /\ \E spends_confirmed \in BOOLEAN :
           closed_use' = (\/ closed_use
                          \/ /\ spends_confirmed
                             /\ storage_closed
                             /\ w_pc = "getrawmempool"
                             /\ w_pc' = "notify")
    /\ UNCHANGED <<close_called, heldVars>>

\* the rest of main_iteration: for each address of address_queue,
\* get_status(addr), whose get_history calls storage.get_history (362)
main_iteration_end_storage ==
    /\ main_iteration_end
    /\ \E queued \in BOOLEAN :
           closed_use' = (closed_use \/ (queued /\ storage_closed))
    /\ UNCHANGED <<storage_closes, close_called, heldVars>>

\* close(), lines 771-775: self.blockchain_thread.join(), then
\* self.storage.close()
close ==
    /\ ~close_called
    /\ thread # "running"
    /\ close_called' = TRUE
    /\ storage_closes' = storage_closes + 1
    /\ UNCHANGED <<closed_use, threadVars, everythingElse, heldVars>>

\* Storage is open, close() has not been called
InitOpen ==
    /\ storage_closes = 0
    /\ closed_use = FALSE
    /\ close_called = FALSE

\* ------------------------------------------------------------ cache_lock
\* The request servicers in the calls that take cache_lock: get_chunk,
\* get_history and get_merkle.  Whether the cache holds the entry asked for
\* is a choice; what the caches hold is in the actions above.
Threads == {"t1", "t2"}
LockedCalls == {"get_chunk", "get_history", "get_merkle"}
Idle == [op |-> "none", pc |-> "idle", hit |-> FALSE]

notLocks == <<catchUpVars, mempoolVars, confirmVars, statusVars, sessionVars,
              requestVars, threadVars, otherVars, laterVars>>

\* a servicer enters one of the calls
servicer_call ==
    \E t \in Threads, op \in LockedCalls :
        /\ servicer[t] = Idle
        /\ servicer' = [servicer EXCEPT ![t] = [op |-> op, pc |-> "acquire",
                                                hit |-> FALSE]]
        /\ UNCHANGED <<cache_lock, notLocks>>

\* with self.cache_lock: the lock is taken when it is free
lock_acquire ==
    \E t \in Threads :
        /\ servicer[t].pc \in {"acquire", "acquire to store"}
        /\ cache_lock = "free"
        /\ cache_lock' = t
        /\ servicer' = [servicer EXCEPT ![t].pc =
                            IF servicer[t].pc = "acquire" THEN "get" ELSE "store"]
        /\ UNCHANGED notLocks

\* under the lock: chunk = self.chunk_cache.get(i), hist =
\* self.history_cache.get(addr), out = self.merkle_cache.get(tx_hash).  In
\* get_chunk a miss goes on under the lock (if not chunk: chunk =
\* self.read_chunk(i)); get_history and get_merkle leave the with block.
cache_get ==
    \E t \in Threads, hit \in BOOLEAN :
        /\ servicer[t].pc = "get"
        /\ servicer' = [servicer EXCEPT ![t].hit = hit,
                                        ![t].pc =
                            IF servicer[t].op = "get_chunk" /\ ~hit
                            THEN "read_chunk" ELSE "release"]
        /\ UNCHANGED <<cache_lock, notLocks>>

\* get_chunk: read_chunk(i) opens the headers file and reads the chunk; if
\* chunk: it is stored
get_chunk_read ==
    \E t \in Threads, chunk \in BOOLEAN :
        /\ servicer[t].pc = "read_chunk"
        /\ servicer' = [servicer EXCEPT ![t].pc =
                            IF chunk THEN "store" ELSE "release"]
        /\ UNCHANGED <<cache_lock, notLocks>>

\* under the lock: self.chunk_cache[i] = chunk, self.history_cache[addr] =
\* hist, self.merkle_cache[tx_hash] = out
cache_store ==
    \E t \in Threads :
        /\ servicer[t].pc = "store"
        /\ servicer' = [servicer EXCEPT ![t].hit = TRUE, ![t].pc = "release"]
        /\ UNCHANGED <<cache_lock, notLocks>>

\* the with block ends.  get_history and get_merkle after a miss go on to
\* Storage or to the daemon; every other call returns.
lock_release ==
    \E t \in Threads :
        /\ servicer[t].pc = "release"
        /\ cache_lock' = "free"
        /\ servicer' = [servicer EXCEPT ![t] =
                            IF servicer[t].hit \/ servicer[t].op = "get_chunk"
                            THEN Idle
                            ELSE [servicer[t] EXCEPT !.pc = "fetch"]]
        /\ UNCHANGED notLocks

\* get_history: self.storage.get_history(addr) and the entries of
\* mempool_hist; get_merkle: getblockhash and getblock of the daemon
fetch ==
    \E t \in Threads :
        /\ servicer[t].pc = "fetch"
        /\ servicer' = [servicer EXCEPT ![t].pc = "acquire to store"]
        /\ UNCHANGED <<cache_lock, notLocks>>

\* no servicer is in a call, the lock is free
InitLocks ==
    /\ cache_lock = "free"
    /\ servicer = [t \in Threads |-> Idle]

\* ------------------------------------------------------- the three locks
\* The with blocks of watch_lock, cache_lock and mempool_lock that each call
\* goes through, in the thread of do_catch_up and in the request servicers.
Locks == {"watch_lock", "cache_lock", "mempool_lock"}
LockThreads == Threads \cup {"worker"}
NotInCall == [call |-> "none", steps |-> <<>>]

\* with self.<lock>: the lock is acquired, and released at the end of the
\* block
with_lock(lock) == <<<<"acquire", lock>>, <<"release", lock>>>>

\* a second with block inside the first
nested(first, second) == <<Head(first)>> \o second \o Tail(first)

\* a with block after another has ended
after(first, second) == first \o second

\* the with blocks of a call, in the order of the code
LockSteps(call) ==
    CASE call = "write_header" -> with_lock("cache_lock")
      [] call = "get_chunk" -> with_lock("cache_lock")
      [] call = "get_history" ->
             after(after(with_lock("cache_lock"), with_lock("mempool_lock")),
                   with_lock("cache_lock"))
      [] call = "get_unconfirmed_history" -> with_lock("mempool_lock")
      [] call = "get_merkle" ->
             after(with_lock("cache_lock"), with_lock("cache_lock"))
      [] call = "invalidate_cache" ->
             after(with_lock("cache_lock"), with_lock("watch_lock"))
      [] call = "memorypool_update" ->
             after(with_lock("mempool_lock"),
                   after(with_lock("cache_lock"), with_lock("watch_lock")))
      [] call = "do_subscribe" -> with_lock("watch_lock")
      [] call = "do_unsubscribe" -> with_lock("watch_lock")

\* the calls of the thread of do_catch_up (catch_up, memorypool_update,
\* get_status in main_iteration) and those of a request servicer
CallsOf(t) ==
    IF t = "worker"
    THEN {"write_header", "invalidate_cache", "memorypool_update",
          "get_history"}
    ELSE {"get_chunk", "get_history", "get_unconfirmed_history", "get_merkle",
          "do_subscribe", "do_unsubscribe"}

\* the thread that holds the lock, or "free"
Holder(lock) ==
    IF lock = "watch_lock" THEN watch_lock
    ELSE IF lock = "cache_lock" THEN cache_lock
    ELSE mempool_lock

Holds(t) == {lock \in Locks : Holder(lock) = t}

notHeld == <<catchUpVars, mempoolVars, confirmVars, statusVars, sessionVars,
             requestVars, threadVars, servicer, otherVars, closeVars>>

\* the lock gets a holder
set_holder(lock, t) ==
    /\ watch_lock' = IF lock = "watch_lock" THEN t ELSE watch_lock
    /\ cache_lock' = IF lock = "cache_lock" THEN t ELSE cache_lock
    /\ mempool_lock' = IF lock = "mempool_lock" THEN t ELSE mempool_lock

\* a thread enters one of its calls
lock_call ==
    \E t \in LockThreads :
        /\ in_call[t] = NotInCall
        /\ \E call \in CallsOf(t) :
               in_call' = [in_call EXCEPT ![t] =
                               [call |-> call, steps |-> LockSteps(call)]]
        /\ UNCHANGED <<watch_lock, cache_lock, mempool_lock, notHeld>>

\* with self.<lock>: entered when the lock is free
with_enter ==
    \E t \in LockThreads :
        /\ in_call[t] # NotInCall
        /\ Head(in_call[t].steps)[1] = "acquire"
        /\ Holder(Head(in_call[t].steps)[2]) = "free"
        /\ set_holder(Head(in_call[t].steps)[2], t)
        /\ in_call' = [in_call EXCEPT ![t].steps = Tail(@)]
        /\ UNCHANGED notHeld

\* the with block ends; after the last one the call returns
with_exit ==
    \E t \in LockThreads :
        /\ in_call[t] # NotInCall
        /\ Head(in_call[t].steps)[1] = "release"
        /\ set_holder(Head(in_call[t].steps)[2], "free")
        /\ in_call' = [in_call EXCEPT ![t] =
                           IF Tail(in_call[t].steps) = <<>> THEN NotInCall
                           ELSE [@ EXCEPT !.steps = Tail(@)]]
        /\ UNCHANGED notHeld

\* get_history and get_merkle return after their first with block when the
\* cache holds the entry, or cache_only is set
cache_hit_return ==
    \E t \in LockThreads :
        /\ in_call[t].call \in {"get_history", "get_merkle"}
        /\ Len(in_call[t].steps) = Len(LockSteps(in_call[t].call)) - 2
        /\ Holds(t) = {}
        /\ in_call' = [in_call EXCEPT ![t] = NotInCall]
        /\ UNCHANGED <<watch_lock, cache_lock, mempool_lock, notHeld>>

\* the thread can take its next step
CanStep(t) ==
    /\ in_call[t] # NotInCall
    /\ \/ Head(in_call[t].steps)[1] = "release"
       \/ Holder(Head(in_call[t].steps)[2]) = "free"

\* the locks are free, no thread is in a call
InitUnlocked ==
    /\ watch_lock = "free"
    /\ mempool_lock = "free"
    /\ in_call = [t \in LockThreads |-> NotInCall]

\* the thread is started
InitThread ==
    /\ thread = "running"
    /\ w_pc = "do_catch_up:getblock"
    /\ phase = "first"
    /\ revert_flag = FALSE
    /\ gb_site = "next"
    /\ waiting = "none"
    /\ stopped = FALSE
    /\ paused = FALSE
    /\ storage_closed = FALSE
    /\ killed_by = "nothing"
    /\ stopped_at = "nowhere"

\* ------------------------------------------------------------ get_merkle
\* the most transactions of a block handed to get_merkle
MaxMerkleTxs == 5

\* Hash(a + b): the double SHA-256 of the two digests joined, a value that
\* tells a and b
Hash(a, b) == <<a, b>>

\* hash_decode(x): the digest a hex string stands for; hash_encode(x): the
\* hex string of a digest
hash_encode(digest) == [hex |-> digest]
hash_decode(x) == x.hex

\* the txid the daemon prints for transaction t
txid_hex(t) == hash_encode(<<t>>)

\* a level of odd length made even with a copy of its first digest
padded_with_first(merkle) ==
    IF Len(merkle) % 2 = 1 THEN Append(merkle, merkle[1]) ELSE merkle

\* if len(merkle) % 2: merkle.append(merkle[-1])
padded(merkle) ==
    IF Len(merkle) % 2 = 1 THEN Append(merkle, merkle[Len(merkle)]) ELSE merkle

RECURSIVE merkle_pairs(_, _, _, _)
\* while merkle: the pairs of one level, from left to right; n is the next
\* level, s the branch, target_hash the node on the path
merkle_pairs(merkle, target_hash, s, n) ==
    IF merkle = <<>> THEN [merkle |-> n, target_hash |-> target_hash, s |-> s]
    ELSE LET new_hash == Hash(merkle[1], merkle[2])
         IN  IF merkle[1] = target_hash
             THEN merkle_pairs(Tail(Tail(merkle)), new_hash,
                               Append(s, hash_encode(merkle[2])),
                               Append(n, new_hash))
             ELSE IF merkle[2] = target_hash
             THEN merkle_pairs(Tail(Tail(merkle)), new_hash,
                               Append(s, hash_encode(merkle[1])),
                               Append(n, new_hash))
             ELSE merkle_pairs(Tail(Tail(merkle)), target_hash, s,
                               Append(n, new_hash))

RECURSIVE merkle_levels(_, _, _)
\* while len(merkle) != 1
merkle_levels(merkle, target_hash, s) ==
    IF Len(merkle) = 1 THEN s
    ELSE LET level == merkle_pairs(padded(merkle), target_hash, s, <<>>)
         IN  merkle_levels(level.merkle, level.target_hash, level.s)

\* tx_list.index(tx_hash), counted from 0
tx_index(tx_list, tx_hash) ==
    (CHOOSE i \in DOMAIN tx_list :
        tx_list[i] = tx_hash /\ \A j \in 1..(i - 1) : tx_list[j] # tx_hash) - 1

\* get_merkle(tx_hash, height, cache_only) after a miss: out
merkle_out(tx_list, tx_hash, height) ==
    [block_height |-> height,
     merkle |-> merkle_levels([i \in DOMAIN tx_list |-> hash_decode(tx_list[i])],
                              hash_decode(tx_hash), <<>>),
     pos |-> tx_index(tx_list, tx_hash)]

NoOut == [block_height |-> None, merkle |-> <<>>, pos |-> None]

\* the 'tx' lists of the daemon's blocks: txids, no two the same
RECURSIVE TxLists(_)
TxLists(n) ==
    IF n = 0 THEN {<<>>}
    ELSE LET shorter == TxLists(n - 1)
         IN  shorter \cup
             {Append(l, txid_hex(t)) :
                 l \in {k \in shorter : Len(k) = n - 1},
                 t \in 1..MaxMerkleTxs}

\* get_merkle(tx_hash, height, False) for a transaction of the block, which
\* is not in merkle_cache
get_merkle ==
    /\ mk_out = NoOut
    /\ mk_out' = merkle_out(mk_tx_list, mk_tx_hash, 1)
    /\ UNCHANGED <<mk_tx_list, mk_tx_hash, mk_blocks, mk_call, notMerkle>>

\* ---------------------------------------------------- the size of caches
\* The entries history_cache and merkle_cache hold for the addresses and
\* transactions of the rest of the chain are counted, not kept: history_others
\* and merkle_others.

\* if len(cache) > self.max_cache_size: cache.clear(); then cache[key] =
\* value: the cache and the count of its other entries after it
cache_insert(cache, others, key, value) ==
    IF Cardinality(DOMAIN cache) + others > max_cache_size
    THEN [cache |-> With(EmptyMap, key, value), others |-> 0]
    ELSE [cache |-> With(cache, key, value), others |-> others]

\* get_history, after a miss: the write of history_cache
history_cache_store ==
    \E addr \in Addrs :
    \E r \in {cache_insert(history_cache, history_others, addr,
                           storage_get_history(addr) \o mempool_entries(addr))} :
        /\ history_cache' = r.cache
        /\ history_others' = r.others
        /\ UNCHANGED <<merkle_cache, merkle_others, notSize>>

\* invalidate_cache: the pop of history_cache
history_cache_pop ==
    \E addr \in DOMAIN history_cache :
        /\ history_cache' = Without(history_cache, addr)
        /\ UNCHANGED <<sizeVars, notSize>>

\* get_merkle, after a miss: the write of merkle_cache
merkle_cache_store ==
    \E t \in 1..BlockTxs :
    \E r \in {cache_insert(merkle_cache, merkle_others, txid_hex(t),
                           merkle_out(<<txid_hex(t)>>, txid_hex(t), 1))} :
        /\ merkle_cache' = r.cache
        /\ merkle_others' = r.others
        /\ UNCHANGED <<history_cache, history_others, notSize>>

\* The requests blockchain.transaction.get_merkle [tx_hash, height] of the
\* servicers, the daemon's chain changing between them
MerkleTxids == {1, 2, 3}
MerkleHeights == {1, 2}
\* the transactions the requests ask for
MerkleAsked == {1, 2}
\* the daemon's blocks at these heights: one or two transactions each, no
\* transaction in two blocks
MerkleBlocks ==
    LET lists == {l \in TxLists(2) :
                     /\ l # <<>>
                     /\ \A i \in DOMAIN l : l[i] \in {txid_hex(t) : t \in MerkleTxids}
                     /\ \A i, j \in DOMAIN l : l[i] = l[j] => i = j}
    IN  {f \in [MerkleHeights -> lists] :
            \A g, h \in MerkleHeights :
                g # h => Range(f[g]) \cap Range(f[h]) = {}}
NoMerkleCall ==
    [tx_hash |-> txid_hex(1), height |-> 0, cache_only |-> FALSE,
     answer |-> "none"]

\* get_merkle(tx_hash, height, cache_only): the cached out if there is one,
\* -1 for cache_only, else the proof in the block getblockhash(height)
\* names, stored under tx_hash; tx_list.index raises ValueError
get_merkle_request ==
    \E t \in MerkleAsked, height \in MerkleHeights, cache_only \in BOOLEAN :
    \E tx_hash \in {txid_hex(t)} :
    \E answer \in {IF tx_hash \in DOMAIN merkle_cache THEN "out"
                    ELSE IF cache_only THEN "-1"
                    ELSE IF tx_hash \notin Range(mk_blocks[height])
                    THEN "ValueError"
                    ELSE "out"} :
        /\ mk_call' = [tx_hash |-> tx_hash, height |-> height,
                       cache_only |-> cache_only, answer |-> answer]
        /\ IF tx_hash \in DOMAIN merkle_cache
           THEN /\ mk_out' = merkle_cache[tx_hash]
                /\ UNCHANGED <<merkle_cache, merkle_others>>
           ELSE IF answer # "out"
           THEN /\ mk_out' = NoOut
                /\ UNCHANGED <<merkle_cache, merkle_others>>
           ELSE \E out \in {merkle_out(mk_blocks[height], tx_hash, height)} :
                \E r \in {cache_insert(merkle_cache, merkle_others, tx_hash,
                                       out)} :
                    /\ mk_out' = out
                    /\ merkle_cache' = r.cache
                    /\ merkle_others' = r.others
        /\ UNCHANGED <<firstVars, history_others, resolveVars, initVars,
                       mk_tx_list, mk_tx_hash, mk_blocks>>

\* the daemon's chain changes and the worker follows it: import_block
\* writes history_cache and short_term_cache, and leaves merkle_cache
merkle_reorg ==
    \E blocks \in MerkleBlocks :
        /\ blocks # mk_blocks
        /\ mk_blocks' = blocks
        /\ mk_call' = NoMerkleCall
        /\ mk_out' = NoOut
        /\ UNCHANGED <<firstVars, sizeVars, resolveVars, initVars,
                       mk_tx_list, mk_tx_hash>>

\* --------------------------------------------------- resolving a URI
CLAIM_ID == "claim_id"
WINNING == "winning"
SEQUENCE == "sequence"
\* The claims of one name: claim c has the outpoint (OutpointTx(c), 0).
ClaimIds == {"c1", "c2"}
OutpointTx(c) == IF c = "c1" THEN "t1" ELSE "t2"
NoClaim == ""
\* getnameproof: with the outpoint of the winning claim, or without one
Proof(txhash) ==
    [keys |-> IF txhash = NoClaim THEN {} ELSE {"txhash", "nOut"},
     txhash |-> txhash, nOut |-> 0]
Proofs == {Proof(t) : t \in {NoClaim, "t1", "t2"}}
\* an entry of getclaimsforname
ListedClaim(c) == [txid |-> OutpointTx(c), n |-> 0, claimId |-> c]
ClaimLists ==
    {<<>>, <<ListedClaim("c1")>>, <<ListedClaim("c2")>>,
     <<ListedClaim("c1"), ListedClaim("c2")>>}
\* parse_ddcs_uri of a URI that is no channel: the name alone, name#claim_id
\* or name:claim_sequence
ParsedUri(claim_id, claim_sequence) ==
    [is_channel |-> FALSE, claim_id |-> claim_id,
     claim_sequence |-> claim_sequence]
Uris == {ParsedUri(NoClaim, 0), ParsedUri("c1", 0), ParsedUri(NoClaim, 1)}

ddcscrd_proof_has_winning_claim(proof) ==
    "txhash" \in proof.keys /\ "nOut" \in proof.keys

\* what a command does: the keys of the dict it returns and its claim_id
\* and resolution type, or the exception it raises
CmdReturned(keys, claim_id, type) ==
    [raised |-> FALSE, error |-> "", keys |-> keys, claim_id |-> claim_id,
     type |-> type]
CmdRaised(error) ==
    [raised |-> TRUE, error |-> error, keys |-> {}, claim_id |-> NoClaim,
     type |-> ""]

\* the first claim of the list with the outpoint (txid, nout), or 0
RECURSIVE first_match(_, _, _, _)
first_match(claims, txid, nout, i) ==
    IF i > Len(claims) THEN 0
    ELSE IF claims[i].txid = txid /\ claims[i].n = nout THEN i
    ELSE first_match(claims, txid, nout, i + 1)

\* cmd_claimtrie_getvalue(name, block_hash), the daemon answering proof to
\* getnameproof and claims to getclaimsforname.  txid and nout are bound
\* only in the branch of a winning claim; the loop reads them at its first
\* iteration.
cmd_claimtrie_getvalue(proof, claims) ==
    LET winning == ddcscrd_proof_has_winning_claim(proof)
        keys == {"proof", "supports"}
                  \cup (IF winning THEN {"transaction", "height"} ELSE {})
        i == first_match(claims, proof.txhash, proof.nOut, 1)
    IN  IF Len(claims) > 0 /\ ~winning THEN CmdRaised("UnboundLocalError")
        ELSE IF i = 0 THEN CmdReturned(keys, NoClaim, WINNING)
        ELSE CmdReturned(keys \cup {"claim_id", "claim_sequence"},
                         claims[i].claimId, WINNING)

\* get_claim_info(claim_id) is a dict with 'value' when Storage knows the
\* claim, and {} when it does not
get_claim_info(known, claim_id) == claim_id \in known

\* the claim the three branches of a URI that is no channel come to
resolved_claim(parsed_uri, proof, claims, known) ==
    IF parsed_uri.claim_id # NoClaim
    THEN IF get_claim_info(known, parsed_uri.claim_id)
         THEN CmdReturned({"claim_id"}, parsed_uri.claim_id, CLAIM_ID)
         ELSE CmdReturned({}, NoClaim, "")
    ELSE IF parsed_uri.claim_sequence # 0
    THEN \* storage.get_claimid_for_nth_claim_to_name: claim c1, if known
         IF get_claim_info(known, "c1")
         THEN CmdReturned({"claim_id"}, "c1", SEQUENCE)
         ELSE CmdReturned({}, NoClaim, "")
    ELSE cmd_claimtrie_getvalue(proof, claims)

\* cmd_claimtrie_get_value_for_uri(block_hash, uri) on a miss of
\* short_term_cache, for a URI that is no channel: the exception raised, or
\* the resolution type of result['claim'] (NoClaim: result has no 'claim').
\* The claims resolved here carry no certificate.
cmd_claimtrie_get_value_for_uri(parsed_uri, proof, claims, known) ==
    LET claim == resolved_claim(parsed_uri, proof, claims, known)
    IN  IF claim.raised THEN claim
        ELSE IF claim.type # ""
                /\ (claim.type # WINNING
                      \/ ddcscrd_proof_has_winning_claim(proof))
        THEN \* claim_val = self.get_claim_info(claim['result']['claim_id']);
             \* claim_val['value']
             IF "claim_id" \notin claim.keys THEN CmdRaised("KeyError")
             ELSE IF ~get_claim_info(known, claim.claim_id)
             THEN CmdRaised("KeyError")
             ELSE claim
        ELSE CmdReturned({}, NoClaim, NoClaim)

NoResolve ==
    [uri |-> ParsedUri(NoClaim, 0), proof |-> Proof(NoClaim), claims |-> <<>>,
     known |-> {}, hit |-> FALSE, out |-> CmdReturned({}, NoClaim, NoClaim)]

\* a servicer answers blockchain.claimtrie.getvalueforuri
resolve_uri ==
    \E parsed_uri \in Uris, proof \in Proofs, claims \in ClaimLists,
       known \in SUBSET ClaimIds :
    \E cached \in {{e \in short_term_cache : e.key = parsed_uri}} :
    \E out \in {IF cached # {} THEN (CHOOSE e \in cached : TRUE).value
                 ELSE cmd_claimtrie_get_value_for_uri(parsed_uri, proof,
                                                      claims, known)} :
        /\ rs_call' = [uri |-> parsed_uri, proof |-> proof, claims |-> claims,
                       known |-> known, hit |-> cached # {}, out |-> out]
        /\ short_term_cache' =
               IF cached = {} /\ ~out.raised
               THEN short_term_cache \cup {[key |-> parsed_uri, value |-> out]}
               ELSE short_term_cache
        /\ UNCHANGED <<daemonVars, storageVars, headerVars, chunk_cache,
                       history_cache, watched_addresses, address_queue,
                       workerVars, historyVars, mempoolVars, confirmVars,
                       statusVars, sessionVars, requestVars, threadVars,
                       lockVars, sizeVars, merkleVars, initVars, laterVars>>

\* a block is imported: catch_up clears short_term_cache
resolve_new_block ==
    /\ short_term_cache # {}
    /\ short_term_cache' = {}
    /\ UNCHANGED <<daemonVars, storageVars, headerVars, chunk_cache,
                   history_cache, watched_addresses, address_queue,
                   workerVars, historyVars, mempoolVars, confirmVars,
                   statusVars, sessionVars, requestVars, threadVars,
                   lockVars, otherVars, laterVars>>

\* ---------------------------------------------------------- init_headers
\* what init_headers leaves alone
notInit == <<daemonVars, storageVars, history_cache, short_term_cache,
             watched_addresses, address_queue, workerVars, historyVars,
             mempoolVars, confirmVars, statusVars, sessionVars, requestVars,
             threadVars, lockVars, sizeVars, merkleVars, resolveVars,
             laterVars>>

\* the lines before the loop: the height of the file and the hash of its
\* last header
init_headers_open ==
    /\ ih_pc = "open"
    /\ \E height \in {BLen(headers_file) \div HEADER_SIZE - 1} :
           /\ ih_height' = height
           /\ ih_prev_hash' = IF height > 0
                              THEN hash_header(read_header(headers_file, height))
                              ELSE None
    /\ ih_pc' = "loop"
    /\ UNCHANGED <<ih_db_height, headerVars, chunk_cache, notInit>>

\* one iteration of while height < db_height.  get_header raises when the
\* daemon has no block at the height; hash_header raises on the None that
\* read_header returns for a record the file does not hold.
init_headers_step ==
    /\ ih_pc = "loop"
    /\ ih_height < ih_db_height
    /\ \E height \in {ih_height + 1} :
       IF Height(daemon_tip) < height
       THEN /\ ih_pc' = "DaemonError"
            /\ ih_height' = height
            /\ UNCHANGED <<ih_prev_hash, headerVars, chunk_cache>>
       ELSE \E b \in {Ancestor(daemon_tip, height)} :
            IF height > 1 /\ ih_prev_hash # Parent(b)
            THEN \E h \in {read_header(headers_file, height - 2)} :
                     /\ ih_height' = height - 2
                     /\ ih_pc' = IF h = NoHeader THEN "TypeError" ELSE "loop"
                     /\ ih_prev_hash' = IF h = NoHeader THEN ih_prev_hash
                                        ELSE hash_header(h)
                     /\ UNCHANGED <<headerVars, chunk_cache>>
            ELSE \E w \in {write_header(b, height, FALSE)} :
                     /\ headers_file' = w.file
                     /\ headers_data' = w.data
                     /\ headers_offset' = w.offset
                     /\ chunk_cache' = w.chunk
                     /\ ih_prev_hash' = b
                     /\ ih_height' = height
                     /\ ih_pc' = "loop"
    /\ UNCHANGED <<ih_db_height, notInit>>

\* the loop ends: self.flush_headers()
init_headers_flush ==
    /\ ih_pc = "loop"
    /\ ih_height >= ih_db_height
    /\ headers_file' = flush_headers(headers_file, headers_data, headers_offset)
    /\ headers_data' = <<>>
    /\ ih_pc' = "done"
    /\ UNCHANGED <<ih_db_height, ih_height, ih_prev_hash, headers_offset,
                   chunk_cache, notInit>>

\* the blocks of height h, and all blocks
RECURSIVE BlocksAt(_)
BlocksAt(h) ==
    IF h = 0 THEN {0}
    ELSE {Child(b, v) : b \in BlocksAt(h - 1), v \in 1..NFork}
Blocks == UNION {BlocksAt(h) : h \in 0..MaxHeight}

\* the headers of the chain that ends in block b, heights 0 to Height(b)
RECURSIVE ChainFile(_)
ChainFile(b) ==
    IF b = 0 THEN HeaderBytes(0) ELSE Cat(ChainFile(Parent(b)), HeaderBytes(b))

\* ------------------------------------------------------------------ Init
\* The state after construction on an empty data directory: Storage holds the
\* genesis block's hash at height 0, init_headers(0) has written and flushed
\* the genesis header, nothing is cached, nobody is subscribed, and
\* do_catch_up is about to call catch_up(sync=False).
InitCatchUp ==
    /\ daemon_tip = 0
    /\ storage_height = 0
    /\ storage_last_hash = 0
    /\ utxo_db = <<>>
    /\ claim_db = <<>>
    /\ undo_db = EmptyMap
    /\ undo_claim_db = EmptyMap
    /\ saved_height = <<0, 0>>
    /\ headers_file = HeaderBytes(0)
    /\ headers_data = <<>>
    /\ headers_offset = 0
    /\ chunk_cache = EmptyMap
    /\ history_cache = EmptyMap
    /\ short_term_cache = {}
    /\ watched_addresses = EmptyMap
    /\ address_queue = <<>>
    /\ sync = FALSE
    /\ prev_root_hash = NoRoot
    /\ up_to_date = FALSE
    /\ header = [id |-> 0, block_height |-> 0, utxo_root |-> <<<<>>, <<>>>>]
    /\ worker = "running"
    /\ last_step = "init"
    /\ applied = <<>>
    /\ roots = << <<<<>>, <<>>>> >>
    /\ undo_left = <<EmptyMap, EmptyMap>>

\* memorypool_update has not run: the mirror is empty
InitMempool ==
    /\ daemon_mempool = {}
    /\ mempool_hashes = {}
    /\ mempool_addresses = EmptyMap
    /\ mempool_values = EmptyMap
    /\ mempool_hist = EmptyMap
    /\ mp_pc = "idle"
    /\ new_tx = <<>>
    /\ touched_addresses = {}
    /\ new_mempool_hist = EmptyMap
    /\ observed = NoAnswer
    /\ before = NoMirror

\* no block holds a transaction of the memory pool, no request is in progress
InitConfirm ==
    /\ mined = EmptyMap
    /\ gh = NoCall
    /\ confirmed_mirrored = {}

\* no status has been asked for
InitStatus ==
    /\ st_hist = <<<<>>, <<>>>>
    /\ st_status = <<>>

\* two histories that hold the same entries: the same entries of Storage, the
\* same unconfirmed transactions in any two orders
InitStatusInputs ==
    /\ st_hist \in {<<c \o m1, c \o m2>> :
                       c \in StorageHistories,
                       m1 \in UNION {MempoolOrders(S) : S \in SUBSET MempoolTxs},
                       m2 \in UNION {MempoolOrders(S) : S \in SUBSET MempoolTxs}}
    /\ Range(st_hist[1]) = Range(st_hist[2])
    /\ st_status = <<>>

\* nobody is subscribed, nothing has been sent (sent_height = 0,
\* sent_header = None)
\* the caches are empty
InitSizes ==
    /\ merkle_cache = EmptyMap
    /\ history_others = 0
    /\ merkle_others = 0

\* the caches hold entries of the rest of the chain: none, or nearly as
\* many as max_cache_size
InitFilledCaches ==
    /\ merkle_cache = EmptyMap
    /\ history_others \in {0, max_cache_size - 1, max_cache_size}
    /\ merkle_others \in {0, max_cache_size - 1, max_cache_size}

\* no URI was resolved
InitNoResolve == rs_call = NoResolve

\* init_headers has returned
InitHeadersDone ==
    /\ ih_pc = "done"
    /\ ih_db_height = 0
    /\ ih_height = 0
    /\ ih_prev_hash = None

\* get_merkle is not called
InitNoMerkle ==
    /\ mk_tx_list = <<>>
    /\ mk_tx_hash = txid_hex(1)
    /\ mk_out = NoOut
    /\ mk_blocks = <<>>
    /\ mk_call = NoMerkleCall

\* a block of the daemon and one of its transactions
InitMerkle ==
    /\ mk_tx_list \in {l \in TxLists(MaxMerkleTxs) :
                          /\ l # <<>>
                          /\ \A i, j \in DOMAIN l : l[i] = l[j] => i = j}
    /\ mk_tx_hash \in Range(mk_tx_list)
    /\ mk_out = NoOut
    /\ mk_blocks = <<>>
    /\ mk_call = NoMerkleCall

\* no request yet
InitRequests ==
    /\ asked = <<>>
    /\ responses = <<>>
    /\ request_queue = <<>>
    /\ lookups = 0

InitSessions ==
    /\ watch_blocks = <<>>
    /\ watch_headers = <<>>
    /\ sent_height = 0
    /\ sent_header = NoHeaderSent
    /\ mi_pc = "numblocks"
    /\ pushed = <<>>
    /\ subscribed_twice = <<>>

vars == <<catchUpVars, mempoolVars, confirmVars, serviceVars>>

Init ==
    /\ InitCatchUp /\ InitMempool /\ InitConfirm /\ InitStatus /\ InitSessions
    /\ InitRequests /\ InitThread /\ InitLocks /\ InitSizes /\ InitNoMerkle
    /\ InitNoResolve /\ InitHeadersDone /\ InitOpen /\ InitUnlocked

\* The catch-up worker alone.  The mempool refresh the worker runs between two
\* calls of catch_up writes nothing that catch_up reads, and is left out.
NextCatchUp ==
    \/ (daemon_new_block /\ UNCHANGED <<confirmVars, serviceVars>>)
    \/ (daemon_reorg /\ UNCHANGED <<confirmVars, serviceVars>>)
    \/ (catch_up_break /\ UNCHANGED <<confirmVars, serviceVars>>)
    \/ (catch_up_forward /\ UNCHANGED <<confirmVars, serviceVars>>)
    \/ (catch_up_revert /\ UNCHANGED <<confirmVars, serviceVars>>)

\* The catch-up worker and the servicers of get_chunk requests
NextChunks ==
    \/ (daemon_new_block /\ UNCHANGED <<confirmVars, serviceVars>>)
    \/ (daemon_reorg /\ UNCHANGED <<confirmVars, serviceVars>>)
    \/ (catch_up_break /\ UNCHANGED <<confirmVars, serviceVars>>)
    \/ (catch_up_forward /\ UNCHANGED <<confirmVars, serviceVars>>)
    \/ (catch_up_revert /\ UNCHANGED <<confirmVars, serviceVars>>)
    \/ (get_chunk_request /\ UNCHANGED <<confirmVars, serviceVars>>)

SpecChunks == Init /\ [][NextChunks]_vars

\* the catch-up worker against a daemon whose chain grows and reorganizes
SpecCatchUp == Init /\ [][NextCatchUp]_vars

\* The worker and the request servicers against a daemon whose chain grows
\* and whose memory pool changes: when catch_up has returned (last_step is
\* "break") the worker runs memorypool_update before it calls catch_up again.
\* The chain only grows here (reorganizations and reverts are the matter of
\* SpecCatchUp): a block not yet imported is what makes an input unknown.
\* memorypool_update asks the daemon in its first step only, so what the
\* daemon does while the later steps run is seen as if done after them: the
\* daemon's steps are taken between two updates.
NextMempool ==
    \/ (mp_pc = "idle" /\ daemon_new_block /\ UNCHANGED <<confirmVars, serviceVars>>)
    \/ (mp_pc = "idle" /\ daemon_mempool_accept /\ UNCHANGED <<confirmVars, serviceVars>>)
    \/ (mp_pc = "idle" /\ daemon_mempool_leave /\ UNCHANGED <<confirmVars, serviceVars>>)
    \/ (last_step # "break" /\ catch_up_break /\ UNCHANGED <<confirmVars, serviceVars>>)
    \/ (last_step # "break" /\ catch_up_forward /\ UNCHANGED <<confirmVars, serviceVars>>)
    \/ (mp_update_maps /\ UNCHANGED <<confirmVars, serviceVars>>)
    \/ (mp_filter /\ UNCHANGED <<confirmVars, serviceVars>>)
    \/ (mp_add /\ UNCHANGED <<confirmVars, serviceVars>>)
    \/ (mp_swap /\ UNCHANGED <<confirmVars, serviceVars>>)
    \/ (mp_invalidate /\ UNCHANGED <<confirmVars, serviceVars>>)
    \/ (get_unconfirmed_history /\ UNCHANGED <<confirmVars, serviceVars>>)
    \/ (get_unconfirmed_value /\ UNCHANGED <<confirmVars, serviceVars>>)

SpecMempool == Init /\ [][NextMempool]_vars

\* The worker and a request servicer calling get_history, against a daemon
\* that confirms transactions of its memory pool.  The chain only grows; the
\* daemon's steps are taken between two memory pool updates, as above.
NextConfirm ==
    \/ (mp_pc = "idle" /\ daemon_new_block /\ UNCHANGED <<confirmVars, serviceVars>>)
    \/ (mp_pc = "idle" /\ daemon_mempool_accept /\ UNCHANGED <<confirmVars, serviceVars>>)
    \/ (mp_pc = "idle" /\ daemon_mine_block /\ UNCHANGED serviceVars)
    \/ (last_step # "break" /\ catch_up_break /\ UNCHANGED <<confirmVars, serviceVars>>)
    \/ (last_step # "break" /\ catch_up_forward /\ UNCHANGED <<confirmVars, serviceVars>>)
    \/ (mp_update_maps /\ UNCHANGED <<confirmVars, serviceVars>>)
    \/ (mp_filter /\ UNCHANGED <<confirmVars, serviceVars>>)
    \/ (mp_add /\ UNCHANGED <<confirmVars, serviceVars>>)
    \/ (mp_swap /\ UNCHANGED <<confirmVars, serviceVars>>)
    \/ (mp_invalidate /\ UNCHANGED <<confirmVars, serviceVars>>)
    \/ (get_history_read /\ UNCHANGED serviceVars)
    \/ (get_history_store /\ UNCHANGED serviceVars)

SpecConfirm == Init /\ [][NextConfirm]_vars

\* The worker with main_iteration's notifications and sessions that
\* subscribe.  The chain only grows and the daemon's memory pool stays empty;
\* while main_iteration pushes its notifications (last_step is "mempool") the
\* worker takes no other step, and a new block of the daemon, which these
\* steps do not read, waits for their end.
NextNotify ==
    \/ (/\ mp_pc = "idle" /\ last_step # "mempool" /\ daemon_new_block
        /\ pushed' = <<>> /\ UNCHANGED <<confirmVars, statusVars, watch_blocks,
               watch_headers, sent_height, sent_header, mi_pc, subscribed_twice,
               requestVars,
                   controlVars>>)
    \/ (/\ last_step \notin {"break", "mempool"} /\ catch_up_break
        /\ pushed' = <<>> /\ UNCHANGED <<confirmVars, statusVars, watch_blocks,
               watch_headers, sent_height, sent_header, mi_pc, subscribed_twice,
               requestVars,
                   controlVars>>)
    \/ (/\ last_step \notin {"break", "mempool"} /\ catch_up_forward
        /\ pushed' = <<>> /\ UNCHANGED <<confirmVars, statusVars, watch_blocks,
               watch_headers, sent_height, sent_header, mi_pc, subscribed_twice,
               requestVars,
                   controlVars>>)
    \/ (/\ mp_update_maps
        /\ pushed' = <<>> /\ UNCHANGED <<confirmVars, statusVars, watch_blocks,
               watch_headers, sent_height, sent_header, mi_pc, subscribed_twice,
               requestVars,
                   controlVars>>)
    \/ (/\ mp_filter
        /\ pushed' = <<>> /\ UNCHANGED <<confirmVars, statusVars, watch_blocks,
               watch_headers, sent_height, sent_header, mi_pc, subscribed_twice,
               requestVars,
                   controlVars>>)
    \/ (/\ mp_add
        /\ pushed' = <<>> /\ UNCHANGED <<confirmVars, statusVars, watch_blocks,
               watch_headers, sent_height, sent_header, mi_pc, subscribed_twice,
               requestVars,
                   controlVars>>)
    \/ (/\ mp_swap
        /\ pushed' = <<>> /\ UNCHANGED <<confirmVars, statusVars, watch_blocks,
               watch_headers, sent_height, sent_header, mi_pc, subscribed_twice,
               requestVars,
                   controlVars>>)
    \/ (/\ mp_invalidate
        /\ pushed' = <<>> /\ UNCHANGED <<confirmVars, statusVars, watch_blocks,
               watch_headers, sent_height, sent_header, mi_pc, subscribed_twice,
               requestVars,
                   controlVars>>)
    \/ (mp_pc = "idle" /\ do_subscribe /\ pushed' = <<>>)
    \/ notify_blocks
    \/ notify_headers
    \/ notify_address
    \/ notify_done

SpecNotify == Init /\ [][NextNotify]_vars

\* The thread of do_catch_up, the daemon answering its calls in any way, and
\* a call of shared.stop() at any point
WorkerStep ==
    \/ daemon_call
    \/ wait_on_ddcscrdd
    \/ catch_up_loop
    \/ main_loop
    \/ main_iteration_end

NextWorker ==
    \/ (daemon_call /\ UNCHANGED laterVars)
    \/ (wait_on_ddcscrdd /\ UNCHANGED laterVars)
    \/ (catch_up_loop /\ UNCHANGED laterVars)
    \/ (main_loop /\ UNCHANGED laterVars)
    \/ (main_iteration_end /\ UNCHANGED laterVars)
    \/ (shared_stop /\ UNCHANGED laterVars)

SpecWorker == Init /\ [][NextWorker]_vars

\* the daemon answers the call the thread makes
daemon_answers ==
    /\ daemon_call
    /\ thread' = "running"
    /\ waiting' = "none"
    /\ w_pc' # w_pc

\* the loop of catch_up ends: getblockhash gives storage.last_hash
catch_up_ends ==
    /\ daemon_call
    /\ w_pc = "getblockhash"
    /\ w_pc' = "catch_up:getblock"

\* The thread is scheduled, a daemon that is called again and again answers
\* in the end, and Storage reaches the tip of the daemon's chain
SpecWorkerAnswered ==
    /\ Init /\ [][NextWorker]_vars
    /\ WF_vars(WorkerStep /\ UNCHANGED laterVars)
    /\ SF_vars(daemon_answers /\ UNCHANGED laterVars)
    /\ SF_vars(catch_up_ends /\ UNCHANGED laterVars)

\* The thread is scheduled: while it can take a step it takes one
SpecWorkerFair ==
    /\ Init /\ [][NextWorker]_vars
    /\ WF_vars(WorkerStep /\ UNCHANGED laterVars)

\* The thread, the calls of Storage it makes around storage.close(), and
\* close() of the processor
NextClose ==
    \/ daemon_call_storage
    \/ (wait_on_ddcscrdd /\ UNCHANGED laterVars)
    \/ (catch_up_loop /\ UNCHANGED laterVars)
    \/ (main_loop /\ UNCHANGED laterVars)
    \/ main_iteration_end_storage
    \/ (shared_stop /\ UNCHANGED laterVars)
    \/ close

SpecClose == Init /\ [][NextClose]_vars

\* The request servicers in do_subscribe and do_unsubscribe, one call at a
\* time (watch_lock)
NextSubscriptions ==
    \/ (do_subscribe /\ UNCHANGED pushed)
    \/ do_unsubscribe

SpecSubscriptions == Init /\ [][NextSubscriptions]_vars

\* The thread of do_catch_up and two request servicers going through the
\* with blocks of their calls
NextThreeLocks ==
    \/ lock_call
    \/ with_enter
    \/ with_exit
    \/ cache_hit_return

SpecThreeLocks == Init /\ [][NextThreeLocks]_vars

\* the program after requests about the rest of the chain
InitCacheSizes ==
    /\ InitCatchUp /\ InitMempool /\ InitConfirm /\ InitStatus /\ InitSessions
    /\ InitRequests /\ InitThread /\ InitLocks /\ InitFilledCaches
    /\ InitNoMerkle /\ InitNoResolve /\ InitHeadersDone /\ InitOpen /\ InitUnlocked

\* __init__ calls init_headers(self.storage.height): no file, or the headers
\* of a chain written by an earlier run, and a daemon on a chain of its own.
\* Nothing else of the program runs yet.
InitHeadersCall ==
    /\ daemon_tip \in Blocks
    /\ storage_height = 0
    /\ storage_last_hash = 0
    /\ utxo_db = <<>>
    /\ claim_db = <<>>
    /\ undo_db = EmptyMap
    /\ undo_claim_db = EmptyMap
    /\ saved_height = <<0, 0>>
    /\ headers_file \in {<<>>} \cup {ChainFile(b) : b \in Blocks}
    /\ headers_data = <<>>
    /\ headers_offset = 0
    /\ chunk_cache = EmptyMap
    /\ history_cache = EmptyMap
    /\ short_term_cache = {}
    /\ watched_addresses = EmptyMap
    /\ address_queue = <<>>
    /\ sync = FALSE
    /\ prev_root_hash = NoRoot
    /\ up_to_date = FALSE
    /\ header = [id |-> 0, block_height |-> 0, utxo_root |-> <<<<>>, <<>>>>]
    /\ worker = "running"
    /\ last_step = "init"
    /\ applied = <<>>
    /\ roots = << <<<<>>, <<>>>> >>
    /\ undo_left = <<EmptyMap, EmptyMap>>
    /\ InitMempool /\ InitConfirm /\ InitStatus /\ InitSessions
    /\ InitRequests /\ InitThread /\ InitLocks /\ InitSizes /\ InitNoMerkle
    /\ InitNoResolve /\ InitOpen /\ InitUnlocked
    /\ ih_pc = "open"
    /\ ih_db_height \in 0..MaxHeight
    /\ ih_height = 0
    /\ ih_prev_hash = None

\* init_headers against a daemon whose chain grows and reorganizes
NextInitHeaders ==
    \/ (ih_pc = "loop" /\ daemon_new_block
           /\ UNCHANGED <<confirmVars, serviceVars>>)
    \/ (ih_pc = "loop" /\ daemon_reorg
           /\ UNCHANGED <<confirmVars, serviceVars>>)
    \/ init_headers_open
    \/ init_headers_step
    \/ init_headers_flush

SpecInitHeaders == InitHeadersCall /\ [][NextInitHeaders]_vars

\* The servicers resolving URIs, on daemons and Storages of every content
NextResolve ==
    \/ resolve_uri
    \/ resolve_new_block

SpecResolve == Init /\ [][NextResolve]_vars

\* The writes of history_cache and merkle_cache
NextCacheSizes ==
    \/ history_cache_store
    \/ history_cache_pop
    \/ merkle_cache_store

SpecCacheSizes == InitCacheSizes /\ [][NextCacheSizes]_vars

\* the program as constructed, and a call of get_merkle
InitGetMerkle ==
    /\ InitCatchUp /\ InitMempool /\ InitConfirm /\ InitStatus /\ InitSessions
    /\ InitRequests /\ InitThread /\ InitLocks /\ InitSizes /\ InitMerkle
    /\ InitNoResolve /\ InitHeadersDone /\ InitOpen /\ InitUnlocked

\* no get_merkle request yet, the daemon on one of its chains
InitMerkleRequests ==
    /\ InitCatchUp /\ InitMempool /\ InitConfirm /\ InitStatus /\ InitSessions
    /\ InitRequests /\ InitThread /\ InitLocks /\ InitSizes
    /\ InitNoResolve /\ InitHeadersDone /\ InitOpen /\ InitUnlocked
    /\ mk_tx_list = <<>>
    /\ mk_tx_hash = txid_hex(1)
    /\ mk_out = NoOut
    /\ mk_blocks \in MerkleBlocks
    /\ mk_call = NoMerkleCall

\* The get_merkle requests and the reorganizations of the chain
NextMerkleRequests ==
    \/ get_merkle_request
    \/ merkle_reorg

SpecMerkleRequests == InitMerkleRequests /\ [][NextMerkleRequests]_vars

\* get_merkle as a function of the block and the transaction
NextMerkle == get_merkle

SpecMerkle == InitGetMerkle /\ [][NextMerkle]_vars

\* The request servicers taking cache_lock
NextLocks ==
    \/ servicer_call
    \/ lock_acquire
    \/ cache_get
    \/ get_chunk_read
    \/ cache_store
    \/ lock_release
    \/ fetch

SpecLocks == Init /\ [][NextLocks]_vars

\* The requests of the sessions, answered while the worker is idle
NextRequest == add_request

SpecRequest == Init /\ [][NextRequest]_vars

\* get_status as a function of the history: the worker does not run
NextStatus == status_apply

\* the program as constructed, and two histories handed to get_status
InitHistories ==
    /\ InitCatchUp /\ InitMempool /\ InitConfirm /\ InitSessions
    /\ InitRequests /\ InitThread /\ InitLocks /\ InitSizes /\ InitNoMerkle
    /\ InitNoResolve /\ InitHeadersDone /\ InitOpen /\ InitUnlocked
    /\ InitStatusInputs

SpecStatus == InitHistories /\ [][NextStatus]_vars

\* =================================================== claims on catch_up
\* the block applied at height h, 0 <= h <= storage.height, as the forward
\* steps recorded it
AppliedAt(h) == IF h = 0 THEN 0 ELSE applied[h]
\* a catch_up iteration has completed and nothing but the daemon moved since
StepDone == last_step \in {"forward", "revert"}
\* os.path.getsize(headers_filename) / HEADER_SIZE - 1
FileHeight == BLen(headers_file) \div HEADER_SIZE - 1

\* C1 as stated: after every completed iteration of the catch_up loop,
\* forward or revert, sync or not, file_size / 112 - 1 == storage.height.
C1_FileSizeIsHeight ==
    StepDone => FileHeight = storage_height

\* C1 as amended: after every completed iteration the file and the write
\* buffer together hold the headers up to storage.height.  With an empty
\* buffer the file holds at least storage.height + 1 records (more after a
\* revert, which never truncates the file); with a non-empty buffer the
\* buffer is whole records that end at storage.height and start where the
\* file's records end or earlier.
C1_FileAndBufferCoverHeight ==
    StepDone =>
        IF headers_data = <<>>
        THEN FileHeight >= storage_height
        ELSE /\ BLen(headers_data) % HEADER_SIZE = 0
             /\ headers_offset + BLen(headers_data) \div HEADER_SIZE - 1
                    = storage_height
             /\ BLen(headers_file) \div HEADER_SIZE >= headers_offset

\* C1 witness: a revert has left a record of a reverted block in the file
C1_Witness_StaleRecord ==
    /\ last_step = "revert"
    /\ headers_data = <<>>
    /\ FileHeight > storage_height

\* C2 as stated: after every completed catch_up step every height up to
\* storage.height reads back from the file as a complete header whose hash
\* is the block applied at that height.
C2_HeadersReadable ==
    StepDone =>
        \A h \in 0..storage_height :
            hash_header(read_header(headers_file, h)) = AppliedAt(h)

\* C2 as amended: the same after every step taken with sync=True and after
\* every revert step; a forward step with sync=False leaves the new header
\* in the write buffer.
C2_HeadersReadableWhenFlushed ==
    (StepDone /\ (sync \/ last_step = "revert")) =>
        \A h \in 0..storage_height :
            hash_header(read_header(headers_file, h)) = AppliedAt(h)

\* C2 witness: a sync=True forward step has replaced the record of a
\* reverted block by the header of the block now applied at that height
C2_Witness_Overwritten ==
    /\ last_step = "forward"
    /\ sync
    /\ storage_height >= 1
    /\ storage_last_hash % Base # 1
    /\ hash_header(read_header(headers_file, storage_height)) = storage_last_hash

\* C3: an iteration of the catch_up loop that completes changes
\* storage.height by exactly +1 or -1; the +1 step applies a block whose
\* previousblockhash is storage.last_hash and leaves storage.last_hash the
\* hash of that block.
C3_StepByOne ==
    [][(/\ worker' = "running"
        /\ <<storage_height, storage_last_hash, utxo_db, claim_db>>'
               # <<storage_height, storage_last_hash, utxo_db, claim_db>>)
       => \/ /\ storage_height' = storage_height + 1
             /\ Parent(storage_last_hash') = storage_last_hash
             /\ utxo_db' = utxo_db \o deserialize_block(storage_last_hash')
             /\ saved_height' = <<storage_last_hash', storage_height'>>
             /\ Ancestor(daemon_tip, storage_height') = storage_last_hash'
          \/ /\ storage_height' = storage_height - 1
             /\ last_step' = "revert"]_vars

\* C3 witness: a forward step onto a block applied before
C3_Witness_SecondForward ==
    /\ last_step = "forward"
    /\ storage_height = 2
    /\ Parent(storage_last_hash) = applied[1]

\* C4: a revert restores the root hash and the height of before the apply
\* and empties the undo maps it loaded; neither assertion ever fails.
C4_RevertRestoresRoot ==
    /\ worker \notin {"AssertionError", "RootMismatch", "KeyError"}
    /\ worker = "running" =>
           /\ Len(roots) = storage_height + 1
           /\ get_root_hash = roots[storage_height + 1]
    /\ last_step = "revert" => undo_left = <<EmptyMap, EmptyMap>>

\* C4 witness: a block of two transactions was applied, reverted, and the
\* assertion on prev_root_hash was evaluated
C4_Witness_AppliedThenReverted ==
    /\ last_step = "revert"
    /\ storage_height = 0
    /\ utxo_db = <<>>
    /\ 1 \in DOMAIN undo_db
    /\ Cardinality(DOMAIN undo_db[1]) = BlockTxs
    /\ saved_height[2] = 1

\* C5: after a revert step taken at height h, storage.height is h - 1 and
\* storage.last_hash is the hash of the block applied at h - 1, in both
\* sync modes; the revert finds that block's header in the file.
C5_RevertLastHash ==
    /\ worker # "NoHeader"
    /\ last_step = "revert" =>
           /\ storage_height = Len(applied)
           /\ storage_last_hash = AppliedAt(storage_height)
           /\ header.id = AppliedAt(storage_height)

\* C5 witness: two blocks applied with sync=False, the second reverted
C5_Witness_RevertUnsynced ==
    /\ last_step = "revert"
    /\ ~sync
    /\ storage_height = 1
    /\ storage_last_hash = applied[1]
    /\ BLen(headers_file) > 2 * HEADER_SIZE

\* ========================================= claims on memorypool_update
\* memorypool_update returns early: the step that ends it is its first
Postponed == last_step = "break" /\ last_step' = "mempool" /\ mp_pc = "idle"
\* memorypool_update returns, early or not
Returns == last_step = "break" /\ last_step' = "mempool"
\* every input of tx_hash resolves, in mempool_values or in Storage
inputs_known(tx_hash) ==
    \A x \in Range(tx_inputs(tx_hash)) :
        x[1] \in DOMAIN mempool_values \/ utxo_known(x[1])
\* mempool_hist[addr] has an entry for tx_hash
in_hist(hist, addr, tx_hash) ==
    \E e \in Range(hist_get(hist, addr)) : e[1] = tx_hash

\* C6 as stated: a memorypool_update that returns early because an input
\* does not resolve leaves mempool_hashes, mempool_values, mempool_addresses
\* and mempool_hist as they were when it started.
C6_PostponedChangesNothing ==
    [][Postponed => mirrorVars' = mirrorVars]_vars

\* C7 as stated: a transaction postponed by an early return is taken up by
\* a later update: when an update completes, every transaction of the
\* daemon's memory pool that the mirror holds and whose inputs all resolve
\* has an entry in mempool_hist for each address it pays to.
C7_PostponedIsRetried ==
    [][(mp_pc = "invalidate" /\ mp_pc' = "idle") =>
          \A t \in (mempool_hashes \cap daemon_mempool)
                       \cap DOMAIN mempool_addresses :
              inputs_known(t) =>
                  \A o \in Range(tx_outputs(t)) :
                      in_hist(mempool_hist', o[1], t)]_vars

\* C8 as stated: whenever no update is running, every entry (txid, delta) of
\* mempool_hist[address] has txid in mempool_addresses with
\* mempool_addresses[txid][address] = delta, and no txid has two entries
\* under one address.
C8_HistMatchesAddresses ==
    mp_pc = "idle" =>
        \A a \in DOMAIN mempool_hist :
            \A i \in DOMAIN mempool_hist[a] :
                LET e == mempool_hist[a][i]
                IN  /\ e[1] \in DOMAIN mempool_addresses
                    /\ a \in DOMAIN mempool_addresses[e[1]]
                    /\ mempool_addresses[e[1]][a] = e[2]
                    /\ \A j \in DOMAIN mempool_hist[a] :
                           j # i => mempool_hist[a][j][1] # e[1]

\* C9 as stated: an update that drops a txid from mempool_hashes has, when
\* it returns, dropped it from mempool_addresses, mempool_values and
\* mempool_hist too, and has invalidated every address the txid moved.
C9_RemovedIsCleaned ==
    [][Returns =>
          LET old == IF mp_pc = "idle"
                     THEN [hashes |-> mempool_hashes,
                           addresses |-> mempool_addresses]
                     ELSE [hashes |-> before.hashes,
                           addresses |-> before.addresses]
              invalidated == IF mp_pc = "idle" THEN {} ELSE touched_addresses
          IN  \A t \in old.hashes \ mempool_hashes' :
                  /\ t \notin DOMAIN mempool_addresses'
                  /\ t \notin DOMAIN mempool_values'
                  /\ \A a \in DOMAIN mempool_hist' :
                         ~in_hist(mempool_hist', a, t)
                  /\ t \in DOMAIN old.addresses =>
                         /\ DOMAIN old.addresses[t] \subseteq invalidated
                         /\ DOMAIN old.addresses[t] \cap DOMAIN history_cache'
                                = {}]_vars

\* C10: a get_unconfirmed_history or get_unconfirmed_value call that runs
\* while memorypool_update does answers from mempool_hist as it was when the
\* update started, until the swap, and from the completed new dict after it.
C10_ReadersSeeOneWorld ==
    [][(observed' # observed /\ observed'.kind # "none") =>
          LET world == IF mp_pc \in {"filter", "add", "swap"}
                       THEN before.hist ELSE new_mempool_hist
              h == hist_get(world, observed'.addr)
          IN  /\ mp_pc # "idle"
              /\ observed'.kind = "history" =>
                     observed'.hist = [i \in DOMAIN h |-> <<h[i][1], 0>>]
              /\ observed'.kind = "value" =>
                     observed'.value = sum_deltas(h)]_vars

\* C10 witness: a session was answered during an update whose half-built
\* dict differs, for the address asked, from the dict being read and from the
\* dict the update will install
C10_Witness_ReadDuringRebuild ==
    /\ mp_pc = "add"
    /\ observed.kind = "history"
    /\ new_tx # <<>>
    /\ hist_get(new_mempool_hist, observed.addr)
           # hist_get(mempool_hist, observed.addr)
    /\ hist_get(add_new(new_mempool_hist, new_tx), observed.addr)
           # hist_get(new_mempool_hist, observed.addr)
    /\ observed.hist # <<>>

\* ============================================ claims on the request side
\* C11: a transaction that was in the mirror with a delta to an address and
\* was then confirmed in a block: once the worker has imported the block and
\* the memorypool_update after it has returned, get_history of the address
\* holds the transaction at the block's height and not at height 0, and
\* get_unconfirmed_value of the address no longer counts it.
C11_ConfirmedLeavesMempool ==
    IterationDone =>
        \A p \in confirmed_mirrored :
            utxo_known(p[1]) =>
                /\ <<p[1], Height(tx_block(p[1]))>> \in Range(get_history(p[2]))
                /\ <<p[1], 0>> \notin Range(get_history(p[2]))
                /\ ~in_hist(mempool_hist, p[2], p[1])

\* C12: get_status depends only on the multiset of (tx_hash, height) pairs of
\* the history: two histories that hold the same pairs, in different orders
\* among the entries of equal height, give the same status.
C12_StatusOfMultiset ==
    st_status # <<>> => st_status[1] = st_status[2]

\* the number of notifications of the batch just pushed that went to session
Delivered(session) ==
    Cardinality({i \in DOMAIN pushed : pushed[i].session = session})

\* the sessions registered for the key of the batch just pushed
BatchSessions ==
    Range(Registered(pushed[1].method,
                     IF pushed[1].method = "address" THEN pushed[1].params[1]
                     ELSE 1))

\* C13: every batch of notifications main_iteration pushes for a key
\* (numblocks, headers or an address) holds exactly one notification for each
\* session registered for the key, however many times the session
\* subscribed, and none for the other sessions.
C13_OneNotificationPerSession ==
    pushed # <<>> =>
        \A session \in Sessions :
            Delivered(session) = IF session \in BatchSessions THEN 1 ELSE 0

\* an address notification reaches a session that subscribed twice to the
\* address before the notification
C13_Witness_SubscribedTwice ==
    /\ pushed # <<>>
    /\ subscribed_twice # <<>>
    /\ pushed[1].method = "address"
    /\ subscribed_twice[2] = "address"
    /\ subscribed_twice[3] = pushed[1].params[1]
    /\ Delivered(subscribed_twice[1]) > 0

Responses(id) == Cardinality({i \in DOMAIN responses : responses[i].id = id})

\* the request was put back on self.queue
Requeued(id) == \E i \in DOMAIN request_queue : request_queue[i][2] = id

\* C15: a request is put back on the queue only if it asked for cache_only
\* and its data was not in the cache; every other request gets exactly one
\* response.
C15_RequeueOnlyCacheMiss ==
    \A i \in DOMAIN asked :
        /\ Requeued(asked[i].id) =>
               asked[i].request.cache_only /\ ~asked[i].cached
        /\ ~Requeued(asked[i].id) => Responses(asked[i].id) = 1

\* the responses pushed for a request
ResponsesTo(id) == {responses[i] : i \in {j \in DOMAIN responses : responses[j].id = id}}

\* C16: a batch command with more than 500 items gets an error response that
\* holds "Exceeds max batch uris of 500" and makes no lookup; with 500 items
\* or fewer it is accepted: it gets a result, one entry for each item.
C16_BatchLimit ==
    \A i \in DOMAIN asked :
        asked[i].request.method \in BatchMethods =>
            /\ Responses(asked[i].id) = 1
            /\ \A r \in ResponsesTo(asked[i].id) :
                   IF asked[i].request.items > 500
                   THEN /\ r.error
                        /\ r.value.text = <<"Exceeds max batch uris of {}">>
                        /\ r.value.number = 500
                        /\ i = Len(asked) => lookups = 0
                   ELSE /\ ~r.error
                        /\ r.value = DictValue(asked[i].request.items)
                        /\ i = Len(asked) => lookups = asked[i].request.items

\* a batch of 501 items has been refused after a batch of 500 was answered
C16_Witness_AtTheLimit ==
    /\ Len(asked) = 2
    /\ asked[1].request.method \in BatchMethods
    /\ asked[1].request.items = 500
    /\ asked[2].request.method \in BatchMethods
    /\ asked[2].request.items = 501
    /\ Len(responses) = 2
    /\ responses[2].error

\* C18: blockchain.transaction.broadcast gets one response and never an
\* error response for an answer of the daemon: for the daemon's error -26
\* with message m the result is the string "The transaction was rejected by
\* network rules.(m)\n[raw]", on success it is the daemon's transaction id.
C18_BroadcastRejectionIsResult ==
    \A i \in DOMAIN asked :
        asked[i].request.method = "blockchain.transaction.broadcast" =>
            /\ Responses(asked[i].id) = 1
            /\ \A r \in ResponsesTo(asked[i].id) :
                   /\ ~r.error
                   /\ asked[i].answer.code = 0 => r.value = asked[i].answer.value
                   /\ asked[i].answer.code = -26 =>
                          /\ r.value.type = "str"
                          /\ r.value.text =
                                 <<"The transaction was rejected by network rules.(",
                                   asked[i].answer.value.text[1], ")\n[", "raw",
                                   "]">>

\* a broadcast the daemon rejected with -26 has been answered
C18_Witness_Rejected ==
    \E i \in DOMAIN asked :
        /\ asked[i].request.method = "blockchain.transaction.broadcast"
        /\ asked[i].answer.code = -26
        /\ Responses(asked[i].id) = 1

\* C17: the thread of do_catch_up ends only when shared.stopped(): an error
\* -342, -343 or -1 of the daemon in one of its calls does not end it.
C17_WorkerSurvivesDaemonErrors ==
    thread # "running" => stopped

\* C19: once shared.stop() has been called the thread of do_catch_up ends.
C19_StopTerminatesWorker ==
    stopped ~> thread # "running"

\* the thread has ended after a stop() that came while it was in
\* wait_on_ddcscrdd
C19_Witness_StoppedWhileWaiting ==
    /\ thread # "running"
    /\ stopped_at = "wait_on_ddcscrdd"

\* the servicer is in file I/O (read_chunk), in a read of Storage or in a
\* daemon call
InIO(t) == servicer[t].pc \in {"read_chunk", "fetch"}

\* C20: no thread is in file I/O, in a read of Storage or in a daemon call
\* while it holds cache_lock.
C20_NoIOUnderCacheLock ==
    \A t \in Threads : InIO(t) => cache_lock # t

RECURSIVE MerkleRoot(_)
\* the Merkle root of a level of digests: pairs hashed from left to right,
\* a level of odd length padded with a copy of its last digest
MerkleRoot(level) ==
    IF Len(level) = 1 THEN level[1]
    ELSE LET even == IF Len(level) % 2 = 1
                     THEN Append(level, level[Len(level)]) ELSE level
         IN  MerkleRoot([i \in 1..(Len(even) \div 2) |->
                            Hash(even[2 * i - 1], even[2 * i])])

RECURSIVE Climb(_, _, _)
\* the digest reached from acc with the siblings of branch, the sibling on
\* the left where the bit of pos is 1
Climb(acc, branch, pos) ==
    IF branch = <<>> THEN acc
    ELSE Climb(IF pos % 2 = 1 THEN Hash(hash_decode(branch[1]), acc)
               ELSE Hash(acc, hash_decode(branch[1])),
               Tail(branch), pos \div 2)

\* C23: for a block of n >= 1 transactions with tx_hash at position p,
\* get_merkle returns pos = p and a branch that leads from tx_hash to the
\* Merkle root of the block, taking the sibling's side from the bits of p;
\* for [x, y, z, w] and y it returns pos 1 and [x, Hash(z, w)].
C23_MerkleBranch ==
    mk_out # NoOut =>
        /\ mk_tx_list[mk_out.pos + 1] = mk_tx_hash
        /\ Climb(hash_decode(mk_tx_hash), mk_out.merkle, mk_out.pos)
               = MerkleRoot([i \in DOMAIN mk_tx_list |->
                               hash_decode(mk_tx_list[i])])
        /\ (mk_tx_list = <<txid_hex(1), txid_hex(2), txid_hex(3), txid_hex(4)>>
                /\ mk_tx_hash = txid_hex(2)) =>
               /\ mk_out.pos = 1
               /\ mk_out.merkle = <<txid_hex(1),
                                    hash_encode(Hash(<<3>>, <<4>>))>>

\* the branch of the last of five transactions, which goes through two
\* padded levels
C23_Witness_PaddedLevels ==
    /\ mk_out # NoOut
    /\ Len(mk_tx_list) = 5
    /\ mk_out.pos = 4
    /\ Len(mk_out.merkle) = 3

\* len(self.history_cache), len(self.merkle_cache)
LenHistoryCache == Cardinality(DOMAIN history_cache) + history_others
LenMerkleCache == Cardinality(DOMAIN merkle_cache) + merkle_others

\* C21: history_cache and merkle_cache never hold more than max_cache_size
\* entries.
C21_CacheSizeBounded ==
    /\ LenHistoryCache <= max_cache_size
    /\ LenMerkleCache <= max_cache_size

\* the record of height h in the chunk get_chunk returns for it
ChunkRecord(h) ==
    Take(Drop(get_chunk(h \div BLOCKS_PER_CHUNK).chunk,
              (h % BLOCKS_PER_CHUNK) * HEADER_SIZE), HEADER_SIZE)

\* C22: whenever the header of the block applied at height h is in the
\* headers file (written and flushed), the chunk get_chunk returns for h
\* holds that header.
C22_ChunkHoldsFlushedHeader ==
    \A h \in 0..storage_height :
        hash_header(read_header(headers_file, h)) = AppliedAt(h)
            => ChunkRecord(h) = read_header(headers_file, h)

\* the last call resolved the name alone and the proof has no winning claim
UnclaimedName ==
    /\ rs_call # NoResolve
    /\ ~rs_call.hit
    /\ rs_call.uri = ParsedUri(NoClaim, 0)
    /\ ~ddcscrd_proof_has_winning_claim(rs_call.proof)

\* C24: resolving a name whose proof has no winning claim returns a result
\* without 'claim' and raises nothing, whatever getclaimsforname lists.
C24_UnclaimedNameIsUnresolved ==
    UnclaimedName => (~rs_call.out.raised /\ rs_call.out.type = NoClaim)

\* C25: a revert step leaves the persisted (hash, height) record and the
\* undo records as they were.
C25_RevertSavesNothing ==
    [][(last_step' = "revert" /\ storage_height' = storage_height - 1)
       => /\ saved_height' = saved_height
          /\ undo_db' = undo_db
          /\ undo_claim_db' = undo_claim_db]_vars

\* C26: the revert step's pop_header takes the last whole record off the
\* write buffer and nothing off an empty one, and its flush writes what is
\* left: whole records.
C26_PopRemovesLastRecord ==
    [][(last_step' = "revert" /\ storage_height' = storage_height - 1)
       => headers_file' =
              flush_headers(headers_file,
                            IF headers_data = <<>> THEN <<>>
                            ELSE Take(headers_data,
                                      BLen(headers_data) - HEADER_SIZE),
                            headers_offset)]_vars

\* the block whose header is the record of height h in the file
FileBlock(h) == hash_header(read_header(headers_file, h))

\* C27: when init_headers has returned, every record of a height h with
\* 1 < h <= db_height is the header of a block of height h whose
\* prev_block_hash is the hash of the record at h - 1.
C27_FileIsChain ==
    ih_pc = "done" =>
        \A h \in 2..ih_db_height :
            /\ FileBlock(h) >= 0
            /\ Height(FileBlock(h)) = h
            /\ Parent(FileBlock(h)) = FileBlock(h - 1)

\* the sessions of the batch pushed, in the order of the pushes
PushedTo(batch) == [i \in DOMAIN batch |-> batch[i].session]

\* C28: main_iteration pushes a numblocks notification to every session of
\* watch_blocks if storage.height differs from sent_height and none if it
\* does not, a headers notification to every session of watch_headers if
\* header differs from sent_header and none if it does not, and returns with
\* sent_height = storage.height and sent_header = header.
C28_NotifiesOnChange ==
    [][/\ (mi_pc = "numblocks" /\ mi_pc' = "headers") =>
             /\ PushedTo(pushed') = IF sent_height # storage_height
                                    THEN watch_blocks ELSE <<>>
             /\ \A i \in DOMAIN pushed' :
                    /\ pushed'[i].method = "numblocks"
                    /\ pushed'[i].params = <<storage_height>>
             /\ sent_height' = storage_height
       /\ (mi_pc = "headers" /\ mi_pc' = "queue") =>
             /\ PushedTo(pushed') = IF sent_header # header
                                    THEN watch_headers ELSE <<>>
             /\ \A i \in DOMAIN pushed' :
                    /\ pushed'[i].method = "headers"
                    /\ pushed'[i].params = <<header>>
             /\ sent_header' = header
       /\ (mi_pc = "queue" /\ mi_pc' = "numblocks") =>
             /\ sent_height' = storage_height'
             /\ sent_header' = header']_vars

\* C28 witness: after a new block the headers notification went to both
\* sessions, sent_height having followed storage.height
C28_Witness_BothSessionsNotified ==
    /\ mi_pc = "queue"
    /\ Len(pushed) = 2
    /\ pushed[1].method = "headers"
    /\ storage_height > 0
    /\ sent_height = storage_height
    /\ sent_header = header

Quiescent == gh.pc = "idle" /\ mp_pc = "idle"

\* C30: in every quiescent state each list history_cache holds is Storage's
\* history of the address followed by one height-0 entry for each entry of
\* mempool_hist of the address.
C30_CacheIsCurrent ==
    Quiescent =>
        \A addr \in DOMAIN history_cache :
            history_cache[addr] =
                storage_get_history(addr) \o mempool_entries(addr)

\* C31: the proof a get_merkle request returns has the height asked for and
\* the pos and the branch of the transaction in the block the daemon has at
\* that height.
C31_MerkleOfCurrentBlock ==
    mk_call.answer = "out" =>
        /\ mk_out.block_height = mk_call.height
        /\ mk_call.tx_hash \in Range(mk_blocks[mk_call.height])
        /\ mk_out = merkle_out(mk_blocks[mk_call.height], mk_call.tx_hash,
                               mk_call.height)

\* C32: storage.close() is called at most once and no Storage operation is
\* invoked after it, wherever in the thread's run shared.stop() is called
C32_ClosedOnceAndUnused ==
    /\ storage_closes <= 1
    /\ ~closed_use

\* C33: after any calls of do_subscribe and do_unsubscribe no session is
\* twice in watch_blocks, in watch_headers or in the list of an address, no
\* address has an empty list, a do_unsubscribe of a session that is not
\* registered for the key changes no registry, and do_unsubscribe does not
\* call shared.stop().
C33_RegistriesWellFormed ==
    /\ Cardinality(Range(watch_blocks)) = Len(watch_blocks)
    /\ Cardinality(Range(watch_headers)) = Len(watch_headers)
    /\ \A a \in DOMAIN watched_addresses :
           /\ watched_addresses[a] # <<>>
           /\ Cardinality(Range(watched_addresses[a])) =
                  Len(watched_addresses[a])
    /\ \A session \in Sessions, method \in Methods, address \in AskedAddrs :
           /\ ~unsubscribed(method, address, session).stop
           /\ session \notin Range(Registered(method, address)) =>
                  unsubscribed(method, address, session) =
                      [blocks |-> watch_blocks, headers |-> watch_headers,
                       addresses |-> watched_addresses, stop |-> FALSE]
    /\ ~stopped

\* a session subscribed to an address twice, and after that every session
\* of the address has unsubscribed while the other registries are full
C33_Witness_AddressEmptiedAgain ==
    /\ subscribed_twice # <<>>
    /\ subscribed_twice[2] = "address"
    /\ watched_addresses = EmptyMap
    /\ Len(watch_blocks) = Cardinality(Sessions)
    /\ Len(watch_headers) = Cardinality(Sessions)

\* C34: with test_reorgs off, catch_up reverts the tip only when the
\* daemon's best chain does not hold storage.last_hash at storage.height
\* with a block on top of it; a getblockhash(storage.height + 1) that fails
\* while the chain does extend the tip reverts nothing.
C34_RevertOnlyOnReorg ==
    [][(~test_reorgs /\ storage_height' = storage_height - 1)
       => ~(/\ Height(daemon_tip) > storage_height
            /\ Ancestor(daemon_tip, storage_height) = storage_last_hash)]_vars

\* C35: no thread holds two of watch_lock, cache_lock and mempool_lock at
\* once, and while a thread is in a call some thread can go on: the threads
\* do not deadlock on these locks.
C35_OneLockPerThread ==
    /\ \A t \in LockThreads : Cardinality(Holds(t)) <= 1
    /\ (\E t \in LockThreads : in_call[t] # NotInCall) =>
           \E t \in LockThreads : CanStep(t)

\* the three locks are held, each by another thread, and the thread of
\* do_catch_up holds watch_lock in its memorypool_update
C35_Witness_AllLocksHeld ==
    /\ watch_lock = "worker"
    /\ in_call["worker"].call = "memorypool_update"
    /\ cache_lock \in Threads
    /\ mempool_lock \in Threads
    /\ in_call[cache_lock].call = "get_history"
    /\ in_call[mempool_lock].call = "get_history"
====
